---------------------------- MODULE Spec2Model ----------------------------
(***************************************************************************)
(* Hot Wheels portal: the lap race game (race_mode.py) and the live        *)
(* dashboard (dashboard.py), two programs that each listen to the portal.  *)
(*                                                                         *)
(* The RaceGame object is the record `game`; its methods are operators on  *)
(* that record, translated statement by statement.  One asyncio event loop *)
(* runs everything: the main coroutine RaceGame.run (handle_input, then a  *)
(* 0.1 s sleep), the countdown it awaits, and the notification callback    *)
(* handle_event, which the loop runs whenever a coroutine is suspended.    *)
(*                                                                         *)
(* Time: datetime.now() is the integer clock `now`; lap durations are      *)
(* differences of clock readings and are summed exactly.                   *)
(***************************************************************************)
EXTENDS Integers, Sequences, FiniteSets, TLC

(***************************************************************************)
(* Bounds of the model.                                                    *)
(***************************************************************************)
MaxTime == 1
MaxSamples == 7
MaxLapLen == 3
MaxLapDur == 6

(***************************************************************************)
(* Optional values: None, or a one-element tuple holding the value.        *)
(***************************************************************************)
None == << >>
Some(v) == << v >>

(***************************************************************************)
(* Channels (hwportal/constants.py).                                       *)
(***************************************************************************)
CHAR_SERIAL_NUMBER == "af0a6ec7-0003-000c-84a0-91559fc6f0de"
CHAR_EVENT_1 == "af0a6ec7-0004-000c-84a0-91559fc6f0de"
CHAR_EVENT_2 == "af0a6ec7-0005-000c-84a0-91559fc6f0de"
CHAR_EVENT_3 == "af0a6ec7-0006-000c-84a0-91559fc6f0de"

(***************************************************************************)
(* GameState (race_mode.py).                                               *)
(***************************************************************************)
MENU == "MENU"
SETUP == "SETUP"
COUNTDOWN == "COUNTDOWN"
RACING == "RACING"
FINISHED == "FINISHED"
LEADERBOARD == "LEADERBOARD"
GameState == {MENU, SETUP, COUNTDOWN, RACING, FINISHED, LEADERBOARD}

(***************************************************************************)
(* Text is a sequence of one-character strings.                            *)
(***************************************************************************)
HexDigits == << "0", "1", "2", "3", "4", "5", "6", "7",
                "8", "9", "A", "B", "C", "D", "E", "F" >>

\* f"{b:02X}"
Hex2(b) == << HexDigits[(b \div 16) + 1], HexDigits[(b % 16) + 1] >>

RECURSIVE Join(_, _)
\* sep.join(parts)
Join(sep, parts) ==
    IF parts = << >> THEN << >>
    ELSE IF Len(parts) = 1 THEN parts[1]
    ELSE parts[1] \o sep \o Join(sep, Tail(parts))

\* ":".join(f"{b:02X}" for b in data[1:7])
FormatUid(data) ==
    Join(<< ":" >>, [i \in 1..6 |-> Hex2(data[i + 1])])

UnknownText == << "U", "n", "k", "n", "o", "w", "n" >>

DecDigits == << "0", "1", "2", "3", "4", "5", "6", "7", "8", "9" >>

RECURSIVE Str(_)
\* str(n) for n >= 0
Str(n) == IF n < 10 THEN << DecDigits[n + 1] >>
          ELSE Str(n \div 10) \o << DecDigits[(n % 10) + 1] >>

\* f"Player {n}"
PlayerName(n) == << "P", "l", "a", "y", "e", "r", " " >> \o Str(n)

RECURSIVE DecodeUtf8(_)
\* data.decode('utf-8', errors='replace'), as a sequence of code points.
\* One- and two-byte forms are decoded; every other byte is replaced by
\* U+FFFD.  (Exact for payloads whose bytes are below 0xE0.)
DecodeUtf8(data) ==
    IF data = << >> THEN << >>
    ELSE IF data[1] < 128 THEN << data[1] >> \o DecodeUtf8(Tail(data))
    ELSE IF /\ data[1] >= 194 /\ data[1] <= 223 /\ Len(data) >= 2
            /\ data[2] >= 128 /\ data[2] <= 191
         THEN << (data[1] - 192) * 64 + (data[2] - 128) >>
                  \o DecodeUtf8(Tail(Tail(data)))
    ELSE << 65533 >> \o DecodeUtf8(Tail(data))

(***************************************************************************)
(* Floating point.  A value is sign * num * 2^exp with num odd (or zero),  *)
(* or an infinity, or a NaN.                                               *)
(***************************************************************************)
RECURSIVE Norm(_, _, _)
Norm(sign, num, exp) ==
    IF num = 0 THEN [kind |-> "fin", sign |-> sign, num |-> 0, exp |-> 0]
    ELSE IF num % 2 = 0 THEN Norm(sign, num \div 2, exp + 1)
    ELSE [kind |-> "fin", sign |-> sign, num |-> num, exp |-> exp]

\* 0.0
FloatZero == Norm(0, 0, 0)

\* struct.unpack('<f', data[:4])[0]
UnpackFloat(data) ==
    LET sign == data[4] \div 128
        e == (data[4] % 128) * 2 + (data[3] \div 128)
        m == (data[3] % 128) * 65536 + data[2] * 256 + data[1]
    IN  IF e = 255
        THEN [kind |-> IF m = 0 THEN "inf" ELSE "nan",
              sign |-> sign, num |-> 0, exp |-> 0]
        ELSE IF e = 0 THEN Norm(sign, m, 0 - 149)
        ELSE Norm(sign, 8388608 + m, e - 150)

\* speed * 64
Scale64(f) ==
    IF f.kind = "fin" /\ f.num # 0 THEN [f EXCEPT !.exp = f.exp + 6] ELSE f

(***************************************************************************)
(* List helpers (Python built-ins).                                        *)
(***************************************************************************)
Range(s) == {s[i] : i \in 1..Len(s)}

RECURSIVE Sum(_)
\* sum(xs)
Sum(s) == IF s = << >> THEN 0 ELSE s[1] + Sum(Tail(s))

\* min(xs)
Min(s) == CHOOSE x \in Range(s) : \A y \in Range(s) : x <= y

\* max(xs)
Max(s) == CHOOSE x \in Range(s) : \A y \in Range(s) : x >= y

\* xs.index(x): zero-based position of the first occurrence
Index(s, x) ==
    (CHOOSE i \in 1..Len(s) : s[i] = x /\ \A j \in 1..(i - 1) : s[j] # x) - 1


(***************************************************************************)
(* Float comparison.                                                       *)
(***************************************************************************)
RECURSIVE Pow2(_)
Pow2(n) == IF n = 0 THEN 1 ELSE 2 * Pow2(n - 1)

\* a finite value as an integer multiple of 2^m
Scaled(f, m) == (IF f.sign = 1 THEN 0 - f.num ELSE f.num) * Pow2(f.exp - m)

\* a > b
FloatGt(a, b) ==
    IF a.kind = "nan" \/ b.kind = "nan" THEN FALSE
    ELSE IF a.kind = "inf"
         THEN a.sign = 0 /\ ~(b.kind = "inf" /\ b.sign = 0)
    ELSE IF b.kind = "inf" THEN b.sign = 1
    ELSE LET m == IF a.exp < b.exp THEN a.exp ELSE b.exp
         IN  Scaled(a, m) > Scaled(b, m)

(***************************************************************************)
(* The live dashboard (dashboard.py).  The Dashboard object is a record;   *)
(* car_database is a function from identifier texts to CarStats records,   *)
(* and current_car, which in the program is a reference to one of the      *)
(* objects held in car_database, is the identifier of that object.         *)
(* Durations are differences of clock readings; float('inf') is Infinity.  *)
(* status_message is kept as the parts it is formatted from.               *)
(***************************************************************************)
Infinity == [inf |-> TRUE, v |-> 0]
Seconds(x) == [inf |-> FALSE, v |-> x]

\* lap < best, for a duration and a best_lap
LessThanBest(lap, best) == best.inf \/ lap < best.v

\* CarStats(nfc_uid=nfc_uid), constructed at time t
CarStats(nfc_uid, t) ==
    [ nfc_uid |-> nfc_uid,
      serial |-> << >>,
      name |-> << >>,
      laps |-> 0,
      speeds |-> << >>,
      lap_times |-> << >>,
      best_speed |-> FloatZero,
      best_lap |-> Infinity,
      last_seen |-> t ]

\* Dashboard.__init__, and run up to start_monitoring
InitDash ==
    [ current_car |-> None,
      car_database |-> << >>,
      last_pass_time |-> None,
      total_passes |-> 0,
      recent_passes |-> << >>,
      status_message |-> [kind |-> "connected"] ]

\* a lookup that builds a fresh record every time
get_car_always_new(d, nfc_uid, t) ==
    [d EXCEPT !.car_database =
        [u \in (DOMAIN d.car_database) \cup {nfc_uid} |->
            IF u = nfc_uid THEN CarStats(nfc_uid, t) ELSE d.car_database[u]]]

\* Dashboard.get_car: the dashboard once the identifier is registered
get_car(d, nfc_uid, t) ==
    IF nfc_uid \notin DOMAIN d.car_database
    THEN [d EXCEPT !.car_database =
            [u \in (DOMAIN d.car_database) \cup {nfc_uid} |->
                IF u = nfc_uid THEN CarStats(nfc_uid, t)
                ELSE d.car_database[u]]]
    ELSE d

\* xs[:n] of a text
Prefix(xs, n) == SubSeq(xs, 1, IF Len(xs) < n THEN Len(xs) ELSE n)

\* lines 76-83: car detection
DashDetect(d, data, t) ==
    IF Len(data) >= 7
    THEN LET nfc_uid == FormatUid(data)
             g == get_car(d, nfc_uid, t)
         IN  [g EXCEPT !.current_car = Some(nfc_uid),
                       !.car_database[nfc_uid].last_seen = t,
                       !.status_message =
                           [kind |-> "detected", uid |-> Prefix(nfc_uid, 11)]]
    ELSE IF Len(data) = 0
    THEN [d EXCEPT !.current_car = None,
                   !.status_message = [kind |-> "no_car"]]
    ELSE d

\* a serial written into every registered record
DashSerial_every_car(d, data) ==
    IF Len(data) > 0 /\ d.current_car # None
    THEN [d EXCEPT !.car_database =
            [u \in DOMAIN d.car_database |->
                [d.car_database[u] EXCEPT !.serial = DecodeUtf8(data)]]]
    ELSE d

\* lines 87-88: car serial
DashSerial(d, data) ==
    IF Len(data) > 0 /\ d.current_car # None
    THEN [d EXCEPT !.car_database[d.current_car[1]].serial = DecodeUtf8(data)]
    ELSE d

\* the lap time of a pass, taken as absent on every pass
PassLapTime_never(d, t) == None

\* lines 99-101: the lap time of a pass at time t
PassLapTime(d, t) ==
    IF d.last_pass_time # None THEN Some(t - d.last_pass_time[1]) ELSE None

\* `if lap_time`: neither None nor 0.0
Truthy(lap_time) == lap_time # None /\ lap_time[1] # 0

\* the car's statistics with the speed overwriting best_speed
CarPass_best_is_last(c, scale_speed, lap_time) ==
    [c EXCEPT !.speeds = Append(c.speeds, scale_speed),
              !.laps = c.laps + 1,
              !.best_speed = scale_speed,
              !.best_lap = IF Truthy(lap_time)
                              /\ LessThanBest(lap_time[1], c.best_lap)
                           THEN Seconds(lap_time[1]) ELSE c.best_lap,
              !.lap_times = IF Truthy(lap_time)
                            THEN Append(c.lap_times, lap_time[1])
                            ELSE c.lap_times]

\* lines 108-118: the statistics of the current car after a pass
CarPass(c, scale_speed, lap_time) ==
    [c EXCEPT !.speeds = Append(c.speeds, scale_speed),
              !.laps = c.laps + 1,
              !.best_speed = IF FloatGt(scale_speed, c.best_speed)
                             THEN scale_speed ELSE c.best_speed,
              !.best_lap = IF Truthy(lap_time)
                              /\ LessThanBest(lap_time[1], c.best_lap)
                           THEN Seconds(lap_time[1]) ELSE c.best_lap,
              !.lap_times = IF Truthy(lap_time)
                            THEN Append(c.lap_times, lap_time[1])
                            ELSE c.lap_times]

RecentCapacity == 10

\* the list cut to its first 10 entries
KeepRecent_first(xs) ==
    SubSeq(xs, 1, IF Len(xs) < RecentCapacity THEN Len(xs) ELSE RecentCapacity)

\* line 129: xs[-10:]
KeepRecent(xs) ==
    SubSeq(xs, IF Len(xs) > RecentCapacity THEN Len(xs) - RecentCapacity + 1
               ELSE 1, Len(xs))

\* line 92
DashSpeedGuard(data) == Len(data) >= 4

\* passes counted only while a car is on the portal
CountPass_with_car(d) ==
    IF d.current_car # None THEN d.total_passes + 1 ELSE d.total_passes

\* line 104: self.total_passes += 1
CountPass(d) == d.total_passes + 1

\* lines 93-131: a speed payload of at least 4 bytes
DashSpeed(d, data, t) ==
    LET speed == UnpackFloat(SubSeq(data, 1, 4))
        scale_speed == Scale64(speed)
        lap_time == PassLapTime(d, t)
        car == IF d.current_car # None
               THEN Prefix(d.current_car[1], 8) ELSE UnknownText
        stats == IF d.current_car # None
                 THEN [d.car_database EXCEPT ![d.current_car[1]] =
                          CarPass(@, scale_speed, lap_time)]
                 ELSE d.car_database
    IN  [d EXCEPT !.last_pass_time = Some(t),
                  !.total_passes = CountPass(d),
                  !.car_database = stats,
                  !.recent_passes =
                      KeepRecent(Append(d.recent_passes,
                                        [time |-> t, car |-> car,
                                         speed |-> scale_speed,
                                         lap_time |-> lap_time])),
                  !.status_message =
                      [kind |-> "pass", n |-> CountPass(d),
                       speed |-> scale_speed]]

\* Dashboard.handle_event
Dashboard_handle_event(d, ch, data, t) ==
    IF ch = CHAR_EVENT_2 THEN DashDetect(d, data, t)
    ELSE IF ch = CHAR_SERIAL_NUMBER THEN DashSerial(d, data)
    ELSE IF ch = CHAR_EVENT_3
    THEN IF DashSpeedGuard(data) THEN DashSpeed(d, data, t) ELSE d
    ELSE d

(***************************************************************************)
(* The portal explorer (portal_app.py): its decoders.  A decoder returns a *)
(* dict; the model returns a record whose `kind` names the keys present,   *)
(* with None for a key the decoder left out.  The text of a URI is a       *)
(* sequence of code points.                                                *)
(***************************************************************************)
CHAR_CONTROL == "af0a6ec7-0007-000c-84a0-91559fc6f0de"

\* data[lo:hi]
Slice(data, lo, hi) ==
    SubSeq(data, lo + 1, IF hi < Len(data) THEN hi ELSE Len(data))

HexLower == << "0", "1", "2", "3", "4", "5", "6", "7",
               "8", "9", "a", "b", "c", "d", "e", "f" >>

RECURSIVE BytesHex(_)
\* data.hex()
BytesHex(data) ==
    IF data = << >> THEN << >>
    ELSE << HexLower[(data[1] \div 16) + 1], HexLower[(data[1] % 16) + 1] >>
           \o BytesHex(Tail(data))

\* text.upper(), for the characters of a hex string
Upper(text) ==
    [i \in 1..Len(text) |->
        CASE text[i] = "a" -> "A" [] text[i] = "b" -> "B"
          [] text[i] = "c" -> "C" [] text[i] = "d" -> "D"
          [] text[i] = "e" -> "E" [] text[i] = "f" -> "F"
          [] OTHER -> text[i]]

\* [text[i:i+2] for i in range(0, len(text), 2)]
Pairs(text) ==
    [k \in 1..((Len(text) + 1) \div 2) |-> Slice(text, 2 * (k - 1), 2 * k)]

\* the identifier without its separators
nfc_formatted_unseparated(data) == Upper(BytesHex(Slice(data, 1, 7)))

\* lines 47-48: nfc_uid, nfc_formatted
nfc_formatted(data) ==
    Join(<< ":" >>, Pairs(Upper(BytesHex(Slice(data, 1, 7)))))

\* decode_car_event
decode_car_event(data) ==
    IF Len(data) < 7 THEN [kind |-> "raw", raw |-> BytesHex(data)]
    ELSE [ kind |-> "car",
           event_type |-> data[1],
           nfc_uid |-> nfc_formatted(data),
           type_name |-> IF data[1] = 4 THEN << "Car Detected" >>
                         ELSE << "Unknown" >> \o BytesHex(<< data[1] >>) ]

\* a prefix table in which every code selects the plain scheme
uri_prefixes_http_only(code) == << 104, 116, 116, 112, 58, 47, 47 >>

\* lines 81-88: uri_prefixes.get(uri_prefix_code, ""), "http://www." and
\* the other prefixes as code points
uri_prefixes(code) ==
    CASE code = 0 -> << >>
      [] code = 1 -> << 104, 116, 116, 112, 58, 47, 47, 119, 119, 119, 46 >>
      [] code = 2 -> << 104, 116, 116, 112, 115, 58, 47, 47,
                       119, 119, 119, 46 >>
      [] code = 3 -> << 104, 116, 116, 112, 58, 47, 47 >>
      [] code = 4 -> << 104, 116, 116, 112, 115, 58, 47, 47 >>
      [] OTHER -> << >>

\* lines 72-75, 86-88: full_uri of a record of type b'U', else None
full_uri(data) ==
    LET type_len == data[2]
        payload_len == data[3]
        record_type == Slice(data, 3, 3 + type_len)
    IN  IF record_type = << 85 >>
        THEN Some(uri_prefixes(data[5])
                    \o DecodeUtf8(Slice(data, 5, 4 + payload_len)))
        ELSE None

\* "pid.mattel/"
MattelMarker == << 112, 105, 100, 46, 109, 97, 116, 116, 101, 108, 47 >>

RECURSIVE Find(_, _)
\* text.find(pat) + 1: the place of the first occurrence, 0 when none
Find(text, pat) ==
    IF Len(text) < Len(pat) THEN 0
    ELSE IF SubSeq(text, 1, Len(pat)) = pat THEN 1
    ELSE LET r == Find(Tail(text), pat) IN IF r = 0 THEN 0 ELSE r + 1

\* text.split(pat)[1], for a text that holds pat
SplitSecond(text, pat) ==
    LET rest == SubSeq(text, Find(text, pat) + Len(pat), Len(text))
        j == Find(rest, pat)
    IN  IF j = 0 THEN rest ELSE SubSeq(rest, 1, j - 1)

\* lines 93-97: mattel_id of a URI, None when the marker is absent
mattel_id_of(uri) ==
    IF uri # None /\ Find(uri[1], MattelMarker) # 0
    THEN Some(SplitSecond(uri[1], MattelMarker))
    ELSE None

\* the end of the record, the type length counted in
ndef_end_with_type_len(data) == 3 + data[2] + data[3]

\* line 113: ndef_end = 4 + payload_len
ndef_end(data) == 4 + data[3]

\* lines 114-117: extra_data, None when the payload ends with the record
extra_data(data) ==
    IF Len(data) > ndef_end(data)
    THEN Some(Slice(data, ndef_end(data), Len(data)))
    ELSE None

\* decode_ndef_record; mattel_id_decoded, a second rendering of mattel_id
\* that is only printed, is left out
decode_ndef_record(data) ==
    IF Len(data) < 10
    THEN IF data # << >> THEN [kind |-> "raw", raw |-> BytesHex(data)]
         ELSE [kind |-> "empty"]
    ELSE [ kind |-> "ndef",
           uri |-> full_uri(data),
           mattel_id |-> mattel_id_of(full_uri(data)),
           signature |-> IF extra_data(data) # None
                         THEN Some(BytesHex(extra_data(data)[1])) ELSE None,
           signature_len |-> IF extra_data(data) # None
                             THEN Some(Len(extra_data(data)[1])) ELSE None ]

\* decode_speed_event
decode_speed_event(data) ==
    IF Len(data) < 4 THEN [kind |-> "raw", raw |-> BytesHex(data)]
    ELSE [ kind |-> "speed",
           raw_float |-> UnpackFloat(Slice(data, 0, 4)),
           scaled_mph |-> Scale64(UnpackFloat(Slice(data, 0, 4))) ]

\* decode_control_register
decode_control_register(data) ==
    IF Len(data) < 5 THEN [kind |-> "raw", raw |-> BytesHex(data)]
    ELSE [ kind |-> "control",
           byte0 |-> data[1], byte1 |-> data[2], byte2 |-> data[3],
           byte3 |-> data[4], byte4 |-> data[5] ]

(***************************************************************************)
(* portal_app.py: the tracked car and the notification callback.           *)
(***************************************************************************)
\* lines 32-37: current_car
InitCurrentCar ==
    [ nfc_uid |-> None, serial |-> None, mattel_id |-> None, name |-> None ]

\* an empty identity payload that leaves the tracked car alone
CarRemoved_keeps(cc) == cc

\* lines 168-170: CAR REMOVED
CarRemoved(cc) == InitCurrentCar

\* a detection branch that also takes an empty payload as a removal
DetectedCar_clears_on_empty(cc, data) ==
    IF Len(data) = 0 THEN [cc EXCEPT !.nfc_uid = None]
    ELSE IF Len(data) < 7 THEN cc
    ELSE [cc EXCEPT !.nfc_uid = Some(decode_car_event(data).nfc_uid)]

\* lines 178-185: the detection channel
DetectedCar(cc, data) ==
    IF Len(data) < 7 THEN cc
    ELSE [cc EXCEPT !.nfc_uid = Some(decode_car_event(data).nfc_uid)]

\* a serial branch that stores the raw bytes
StoredSerial_raw(cc, data) ==
    IF Len(data) > 0 THEN [cc EXCEPT !.serial = Some(data)] ELSE cc

\* lines 187-192: the serial channel
StoredSerial(cc, data) ==
    IF Len(data) > 0 THEN [cc EXCEPT !.serial = Some(DecodeUtf8(data))]
    ELSE cc

\* event_handler: current_car after the notification
event_handler(cc, ch, data) ==
    IF ch = CHAR_EVENT_1
    THEN IF Len(data) = 0 THEN CarRemoved(cc)
         ELSE LET decoded == decode_ndef_record(data)
              IN  IF decoded.kind = "ndef" /\ decoded.mattel_id # None
                  THEN [cc EXCEPT !.mattel_id = decoded.mattel_id]
                  ELSE cc
    ELSE IF ch = CHAR_EVENT_2 THEN DetectedCar(cc, data)
    ELSE IF ch = CHAR_SERIAL_NUMBER THEN StoredSerial(cc, data)
    ELSE cc

\* event_handler: the decoded dict it prints, None when it decodes nothing
Decoded(ch, data) ==
    IF ch = CHAR_EVENT_1
    THEN IF Len(data) = 0 THEN None ELSE Some(decode_ndef_record(data))
    ELSE IF ch = CHAR_EVENT_2
    THEN IF Len(data) < 7 THEN None ELSE Some(decode_car_event(data))
    ELSE IF ch = CHAR_EVENT_3 THEN Some(decode_speed_event(data))
    ELSE IF ch = CHAR_CONTROL
    THEN IF Len(data) >= 5 THEN Some(decode_control_register(data)) ELSE None
    ELSE None

(***************************************************************************)
(* The library object (hwportal/portal.py).  `client` is the BleakClient:  *)
(* None, or the state of its link.  A callback is known by its name and by *)
(* whether it raises an Exception when called.                             *)
(***************************************************************************)
\* HotWheelsPortal.__init__
InitPortal ==
    [ client |-> None,
      events |-> << >>,
      _event_callbacks |-> << >>,
      _connected |-> FALSE ]

\* a callback that returns
Returning(name) == [name |-> name, raises |-> FALSE]

\* connect, then on_event(handler) and start_monitoring
MonitoredPortal ==
    [ client |-> Some([is_connected |-> TRUE]),
      events |-> << >>,
      _event_callbacks |-> << Returning("handle_event") >>,
      _connected |-> TRUE ]

\* a callback that raises an Exception
Raising(name) == [name |-> name, raises |-> TRUE]

\* HotWheelsPortal.on_event
on_event(p, callback) ==
    [p EXCEPT !._event_callbacks = Append(@, callback)]

\* lines 178-183: PortalEvent(timestamp, characteristic, char_name, data);
\* the characteristic stands for its name too
PortalEvent(t, ch, data) ==
    [timestamp |-> t, characteristic |-> ch, data |-> data]

RECURSIVE Dispatch_until_raise(_, _)
\* a loop that the first raising callback ends
Dispatch_until_raise(callbacks, event) ==
    IF callbacks = << >> THEN << >>
    ELSE << [callback |-> callbacks[1].name, event |-> event,
             error |-> callbacks[1].raises] >>
           \o (IF callbacks[1].raises THEN << >>
               ELSE Dispatch_until_raise(Tail(callbacks), event))

RECURSIVE Dispatch(_, _)
\* lines 188-192: each callback is called inside try / except Exception;
\* the calls made, each with whether its error was caught and printed
Dispatch(callbacks, event) ==
    IF callbacks = << >> THEN << >>
    ELSE << [callback |-> callbacks[1].name, event |-> event,
             error |-> callbacks[1].raises] >>
           \o Dispatch(Tail(callbacks), event)

\* _notification_handler: the portal once the event is logged
_notification_handler(p, ch, data, t) ==
    [p EXCEPT !.events = Append(@, PortalEvent(t, ch, data))]

\* HotWheelsPortal.is_connected
is_connected(p) ==
    p._connected /\ p.client # None /\ p.client[1].is_connected

CHAR_AUTH_COMMAND == "af0a6ec7-0002-000a-84a0-91559fc6f0de"
CHAR_AUTH_RESPONSE == "af0a6ec7-0004-000a-84a0-91559fc6f0de"
CHAR_DATA_COMMAND == "af0a6ec7-0002-000b-84a0-91559fc6f0de"
CHAR_COMMAND == "af0a6ec7-0008-000c-84a0-91559fc6f0de"

NOTIFY_CHARACTERISTICS ==
    << CHAR_AUTH_COMMAND, CHAR_AUTH_RESPONSE, CHAR_DATA_COMMAND,
       CHAR_SERIAL_NUMBER, CHAR_EVENT_1, CHAR_EVENT_2, CHAR_EVENT_3,
       CHAR_CONTROL, CHAR_COMMAND >>

\* an operation of the BleakClient (or of the scanner) on a characteristic
Transport(op, char) == [op |-> op, char |-> char]

\* what a method of the portal did: the portal it leaves, what it returned
\* or raised, and the operations it performed on the transport
Outcome(p, returns, raises, transport) ==
    [portal |-> p, returns |-> returns, raises |-> raises,
     transport |-> transport]

\* lines 107-128.  `link` is what the radio does: "none_found" (no address
\* and an empty scan), "linked", "refused" (client.connect returns and
\* is_connected is false) or "error" (client.connect raises)
connect(p, link) ==
    IF p._connected THEN Outcome(p, Some(TRUE), None, << >>)
    ELSE IF link = "none_found"
    THEN Outcome(p, None, Some("ConnectionError"),
                 << Transport("scan", None) >>)
    ELSE IF link = "error"
    THEN Outcome([p EXCEPT !.client = Some([is_connected |-> FALSE])],
                 None, Some("BleakError"),
                 << Transport("connect", None) >>)
    ELSE LET linked == link = "linked"
         IN  Outcome([p EXCEPT !.client = Some([is_connected |-> linked]),
                               !._connected = linked],
                     Some(linked), None,
                     << Transport("connect", None) >>
                       \o (IF linked
                           THEN << Transport("_read_device_info", None) >>
                           ELSE << >>))

\* start_monitoring without the test of the connection
start_monitoring_unguarded(p) ==
    Outcome(p, None, None,
            [i \in 1..Len(NOTIFY_CHARACTERISTICS) |->
                Transport("start_notify", Some(NOTIFY_CHARACTERISTICS[i]))])

\* lines 194-203
start_monitoring(p) ==
    IF ~is_connected(p) THEN Outcome(p, None, Some("ConnectionError"), << >>)
    ELSE Outcome(p, None, None,
                 [i \in 1..Len(NOTIFY_CHARACTERISTICS) |->
                     Transport("start_notify",
                               Some(NOTIFY_CHARACTERISTICS[i]))])

\* lines 205-214
stop_monitoring(p) ==
    IF ~is_connected(p) THEN Outcome(p, None, None, << >>)
    ELSE Outcome(p, None, None,
                 [i \in 1..Len(NOTIFY_CHARACTERISTICS) |->
                     Transport("stop_notify",
                               Some(NOTIFY_CHARACTERISTICS[i]))])

\* lines 216-221; `value` is what the register holds
read_control_register(p, value) ==
    IF ~is_connected(p) THEN Outcome(p, None, Some("ConnectionError"), << >>)
    ELSE Outcome(p, Some(value), None,
                 << Transport("read_gatt_char", Some(CHAR_CONTROL)) >>)

\* lines 223-228
write_control_register(p, data) ==
    IF ~is_connected(p) THEN Outcome(p, None, Some("ConnectionError"), << >>)
    ELSE Outcome(p, None, None,
                 << [op |-> "write_gatt_char", char |-> Some(CHAR_CONTROL),
                     data |-> data] >>)

\* lines 230-235
send_command(p, data) ==
    IF ~is_connected(p) THEN Outcome(p, None, Some("ConnectionError"), << >>)
    ELSE Outcome(p, None, None,
                 << [op |-> "write_gatt_char", char |-> Some(CHAR_COMMAND),
                     data |-> data] >>)

\* get_events handing out the whole log whatever is asked for
get_events_unfiltered(p, characteristic) == p.events

\* HotWheelsPortal.get_events: the list returned, a new one
get_events(p, characteristic) ==
    IF characteristic = None THEN p.events
    ELSE SelectSeq(p.events,
                   LAMBDA e : e.characteristic = characteristic[1])

\* HotWheelsPortal.clear_events
clear_events(p) == [p EXCEPT !.events = << >>]

\* HotWheelsPortal.disconnect
disconnect(p) ==
    IF p.client # None /\ p._connected
    THEN [p EXCEPT !.client = Some([is_connected |-> FALSE]),
                   !._connected = FALSE]
    ELSE p

(***************************************************************************)
(* State.                                                                  *)
(*   game       the RaceGame object (its fields, by name)                  *)
(*   now        the wall clock read by datetime.now()                      *)
(*   mainpc     where RaceGame.run is: "loop" (between handle_input        *)
(*              calls), "await" (inside `await self.run_countdown()`),     *)
(*              "stopped" (the loop was left by KeyboardInterrupt and the  *)
(*              portal context was closed), "closing" (the main task was   *)
(*              cancelled and __aexit__ awaits the disconnection)          *)
(*   cds        the run_countdown coroutines suspended in asyncio.sleep,   *)
(*              each by the value of its loop variable i                   *)
(* Observations (no field of the program):                                 *)
(*   emitted    the values assigned to countdown_value since the last      *)
(*              entry of run_countdown                                     *)
(*   accepted   the number of key presses that called run_countdown        *)
(*   started    the number of calls of start_race                          *)
(*   samples    the speed samples handled in RACING since start_race       *)
(*   total_samples  the speed samples handled in RACING since Init         *)
(*   finishes   the results appended since the last start_race             *)
(*   finish_empty  whether finish_race ever took its early return          *)
(*   last_op    the branch taken by the last step, and for a speed         *)
(*              notification its payload                                   *)
(* The other programs and the library:                                     *)
(*   dash       the Dashboard object; pass_log its passes (observation)    *)
(*   current_car  the global of portal_app.py                              *)
(*   printed    the dict decoded by the last call of event_handler         *)
(*              (observation: it is only printed)                          *)
(*   portal     the HotWheelsPortal object                                 *)
(*   calls      the callbacks invoked by the last call of                  *)
(*              _notification_handler, in order (observation)              *)
(***************************************************************************)
VARIABLES game, now, mainpc, cds, emitted, accepted, started, samples,
          total_samples, finishes, finish_empty, last_op, dash, pass_log

VARIABLES current_car, printed, portal, calls

vars == << game, now, mainpc, cds, emitted, accepted, started, samples,
           total_samples, finishes, finish_empty, last_op, dash, pass_log,
           current_car, printed, portal, calls >>

\* the dashboard is another program: the race game leaves it alone
dashvars == << dash, pass_log >>

\* the dashboard as constructed
DashIdle == dash = InitDash /\ pass_log = << >>

\* portal_app.py is another program
appvars == << current_car, printed >>

\* the library object, left alone by a step
libvars == << portal, calls >>

\* portal_app.py as loaded; the portal as a program holds it in its main
\* loop: connected by `async with`, one callback registered, monitoring
\* started
AppIdle ==
    /\ current_car = InitCurrentCar /\ printed = None
    /\ portal = MonitoredPortal /\ calls = << >>

Op(name, data) == [op |-> name, data |-> data]

(***************************************************************************)
(* RaceGame.__init__                                                       *)
(***************************************************************************)
InitGame ==
    [ state |-> MENU,
      target_laps |-> 10,
      current_lap |-> 0,
      lap_times |-> << >>,
      last_lap_time |-> None,
      race_start_time |-> None,
      current_car_uid |-> None,
      current_car_serial |-> None,
      last_speed |-> FloatZero,
      current_player |-> PlayerName(1),
      player_count |-> 1,
      results |-> << >>,
      countdown_value |-> 3,
      needs_refresh |-> TRUE ]

\* start_race, forgetting to clear the time of the last pass
start_race_keeps_last(g, t) ==
    [g EXCEPT !.current_lap = 0,
              !.lap_times = << >>,
              !.race_start_time = Some(t),
              !.state = RACING,
              !.needs_refresh = TRUE]

(***************************************************************************)
(* RaceGame.start_race                                                     *)
(***************************************************************************)
start_race(g, t) ==
    [g EXCEPT !.current_lap = 0,
              !.lap_times = << >>,
              !.last_lap_time = None,
              !.race_start_time = Some(t),
              !.state = RACING,
              !.needs_refresh = TRUE]

\* the result with the lap numbers left zero-based
RaceResultOf_zero_based(g) ==
    [ player_name |-> g.current_player,
      car_uid |-> IF g.current_car_uid # None
                  THEN g.current_car_uid[1] ELSE UnknownText,
      lap_count |-> Len(g.lap_times),
      lap_times |-> g.lap_times,
      total_time |-> Sum(g.lap_times),
      best_lap |-> Min(g.lap_times),
      best_lap_num |-> Index(g.lap_times, Min(g.lap_times)),
      worst_lap |-> Max(g.lap_times),
      worst_lap_num |-> Index(g.lap_times, Max(g.lap_times)),
      avg_lap |-> [num |-> Sum(g.lap_times), den |-> Len(g.lap_times)] ]

\* the result with the best lap taken from the last lap
RaceResultOf_best_is_last(g) ==
    [ player_name |-> g.current_player,
      car_uid |-> IF g.current_car_uid # None
                  THEN g.current_car_uid[1] ELSE UnknownText,
      lap_count |-> Len(g.lap_times),
      lap_times |-> g.lap_times,
      total_time |-> Sum(g.lap_times),
      best_lap |-> g.lap_times[Len(g.lap_times)],
      best_lap_num |-> Len(g.lap_times),
      worst_lap |-> Max(g.lap_times),
      worst_lap_num |-> Index(g.lap_times, Max(g.lap_times)) + 1,
      avg_lap |-> [num |-> Sum(g.lap_times), den |-> Len(g.lap_times)] ]

\* the result that never names the car
RaceResultOf_unknown_car(g) ==
    [ player_name |-> g.current_player,
      car_uid |-> UnknownText,
      lap_count |-> Len(g.lap_times),
      lap_times |-> g.lap_times,
      total_time |-> Sum(g.lap_times),
      best_lap |-> Min(g.lap_times),
      best_lap_num |-> Index(g.lap_times, Min(g.lap_times)) + 1,
      worst_lap |-> Max(g.lap_times),
      worst_lap_num |-> Index(g.lap_times, Max(g.lap_times)) + 1,
      avg_lap |-> [num |-> Sum(g.lap_times), den |-> Len(g.lap_times)] ]

(***************************************************************************)
(* RaceGame.finish_race.  avg_lap is the exact quotient num / den.         *)
(***************************************************************************)
RaceResultOf(g) ==
    LET total_time == Sum(g.lap_times)
        best_lap == Min(g.lap_times)
        best_lap_num == Index(g.lap_times, best_lap) + 1
        worst_lap == Max(g.lap_times)
        worst_lap_num == Index(g.lap_times, worst_lap) + 1
        avg_lap == [num |-> total_time, den |-> Len(g.lap_times)]
    IN  [ player_name |-> g.current_player,
          car_uid |-> IF g.current_car_uid # None
                      THEN g.current_car_uid[1] ELSE UnknownText,
          lap_count |-> Len(g.lap_times),
          lap_times |-> g.lap_times,
          total_time |-> total_time,
          best_lap |-> best_lap,
          best_lap_num |-> best_lap_num,
          worst_lap |-> worst_lap,
          worst_lap_num |-> worst_lap_num,
          avg_lap |-> avg_lap ]

\* the race ended without its result being stored
finish_race_unrecorded(g) ==
    IF g.lap_times = << >> THEN g
    ELSE [g EXCEPT !.state = FINISHED, !.needs_refresh = TRUE]

finish_race(g) ==
    IF g.lap_times = << >> THEN g
    ELSE [g EXCEPT !.results = Append(g.results, RaceResultOf(g)),
                   !.state = FINISHED,
                   !.needs_refresh = TRUE]

(***************************************************************************)
(* RaceGame.handle_event                                                   *)
(***************************************************************************)
\* the lap counted but its time not appended
RecordLap_no_append(g, t) ==
    [g EXCEPT !.current_lap = g.current_lap + 1]

\* the lap appended and counted twice
RecordLap_counts_twice(g, t) ==
    [g EXCEPT !.lap_times = Append(g.lap_times, t - g.last_lap_time[1]),
              !.current_lap = g.current_lap + 2]

\* lines 108-110: the lap since the previous pass is recorded
RecordLap(g, t) ==
    [g EXCEPT !.lap_times = Append(g.lap_times, t - g.last_lap_time[1]),
              !.current_lap = g.current_lap + 1]

\* the test with > for >=
RaceComplete_gt(g) == g.current_lap > g.target_laps

\* the test passing at the first lap
RaceComplete_at_once(g) == g.current_lap >= 1

\* line 113: the test that calls finish_race
RaceComplete(g) == g.current_lap >= g.target_laps

\* the guard without the test of the state
SpeedGuard_any_state(g, data) == Len(data) >= 4

\* line 100: the guard of the speed branch
SpeedGuard(g, data) == Len(data) >= 4 /\ g.state = RACING

\* the speed branch with the time of the pass stored before the lap is taken
SpeedBranch_stamp_first(g, data, t) ==
    LET g1 == [g EXCEPT !.last_speed = Scale64(UnpackFloat(SubSeq(data, 1, 4))),
                        !.last_lap_time = Some(t)]
        g3 == RecordLap(g1, t)
    IN  [(IF RaceComplete(g3) THEN finish_race(g3) ELSE g3)
            EXCEPT !.needs_refresh = TRUE]

\* lines 98-117: the speed branch, taken
SpeedBranch(g, data, t) ==
    LET g1 == [g EXCEPT !.last_speed = Scale64(UnpackFloat(SubSeq(data, 1, 4)))]
        g2 == IF g1.last_lap_time # None
              THEN LET g3 == RecordLap(g1, t)
                   IN  IF RaceComplete(g3) THEN finish_race(g3) ELSE g3
              ELSE g1
    IN  [g2 EXCEPT !.last_lap_time = Some(t), !.needs_refresh = TRUE]

\* handle_event decoding the speed before it looks at the state
handle_event_speed_always(g, ch, data, t) ==
    IF ch = CHAR_EVENT_3 /\ Len(data) >= 4 /\ g.state # RACING
    THEN [g EXCEPT !.last_speed = Scale64(UnpackFloat(SubSeq(data, 1, 4)))]
    ELSE IF ch = CHAR_EVENT_3
    THEN IF SpeedGuard(g, data) THEN SpeedBranch(g, data, t) ELSE g
    ELSE IF ch = CHAR_EVENT_2
    THEN IF Len(data) >= 7
         THEN [g EXCEPT !.current_car_uid = Some(FormatUid(data))]
         ELSE IF Len(data) = 0
         THEN [g EXCEPT !.current_car_uid = None]
         ELSE g
    ELSE IF ch = CHAR_SERIAL_NUMBER /\ Len(data) > 0
    THEN [g EXCEPT !.current_car_serial = Some(DecodeUtf8(data))]
    ELSE g

handle_event(g, ch, data, t) ==
    IF ch = CHAR_EVENT_2
    THEN IF Len(data) >= 7
         THEN [g EXCEPT !.current_car_uid = Some(FormatUid(data))]
         ELSE IF Len(data) = 0
         THEN [g EXCEPT !.current_car_uid = None]
         ELSE g
    ELSE IF ch = CHAR_SERIAL_NUMBER
    THEN IF Len(data) > 0
         THEN [g EXCEPT !.current_car_serial = Some(DecodeUtf8(data))]
         ELSE g
    ELSE IF ch = CHAR_EVENT_3
    THEN IF SpeedGuard(g, data) THEN SpeedBranch(g, data, t) ELSE g
    ELSE g

\* Whether handle_event calls finish_race while the lap list is empty.
FinishesEmpty(g, ch, data, t) ==
    /\ ch = CHAR_EVENT_3
    /\ SpeedGuard(g, data)
    /\ g.last_lap_time # None
    /\ RaceComplete(RecordLap(g, t))
    /\ RecordLap(g, t).lap_times = << >>

\* The branch of handle_event a notification takes.
EventLabel(g, ch, data) ==
    IF ch = CHAR_EVENT_2 THEN "detect"
    ELSE IF ch = CHAR_SERIAL_NUMBER THEN "serial"
    ELSE IF ch # CHAR_EVENT_3 THEN "other"
    ELSE IF Len(data) < 4 THEN "speed_short"
    ELSE IF g.state # RACING THEN "speed_idle"
    ELSE IF g.last_lap_time = None THEN "speed_first"
    ELSE "speed_lap"

(***************************************************************************)
(* RaceGame.run_countdown: its entry up to the first sleep, and one        *)
(* iteration of its loop.                                                  *)
(***************************************************************************)
CountdownFirst == 3

run_countdown_enter(g) ==
    [g EXCEPT !.state = COUNTDOWN,
              !.countdown_value = CountdownFirst,
              !.needs_refresh = TRUE]

run_countdown_iter(g, i) ==
    [g EXCEPT !.countdown_value = i, !.needs_refresh = TRUE]

(***************************************************************************)
(* RaceGame.handle_input / process_key.  process_key yields the game and   *)
(* what it goes on to do: "run_countdown" (awaited), "KeyboardInterrupt"   *)
(* (raised), or "none".                                                    *)
(***************************************************************************)
\* sys.stdin.read(1).lower(), for the keys of the model
Lower(k) ==
    CASE k = "C" -> "c" [] k = "L" -> "l" [] k = "Q" -> "q" [] k = "N" -> "n"
      [] k = "R" -> "r" [] k = "M" -> "m" [] OTHER -> k

Ret(g, call) == [game |-> g, call |-> call]

\* race again falling back to the default number of laps
RaceAgain_default_laps(g) == Ret([g EXCEPT !.target_laps = 10], "run_countdown")

\* lines 551-553: race again, same player
RaceAgain(g) == Ret(g, "run_countdown")

\* next player, the counter advanced but the old name kept
NextPlayer_keeps_name(g) ==
    Ret([g EXCEPT !.player_count = g.player_count + 1, !.state = MENU],
        "none")

\* the next player starting with the leaderboard emptied
NextPlayer_drops_results(g) ==
    Ret([g EXCEPT !.player_count = g.player_count + 1,
                  !.current_player = PlayerName(g.player_count + 1),
                  !.results = << >>,
                  !.state = MENU], "none")

\* lines 546-550: next player
NextPlayer(g) ==
    LET count == g.player_count + 1
    IN  Ret([g EXCEPT !.player_count = count,
                      !.current_player = PlayerName(count),
                      !.state = MENU], "none")

\* clearing the leaderboard and leaving it for the menu
ClearResults_and_menu(g) ==
    Ret([g EXCEPT !.results = << >>, !.state = MENU], "none")

\* lines 562-563: clear the leaderboard
ClearResults(g) == Ret([g EXCEPT !.results = << >>], "none")

\* the menu key taken in every state
NoBranch_menu_anywhere(g, key) ==
    IF key = "m" THEN Ret([g EXCEPT !.state = MENU], "none")
    ELSE Ret(g, "none")

\* the state is none of MENU, FINISHED, LEADERBOARD: no branch of the
\* if/elif chain is taken
NoBranch(g, key) == Ret(g, "none")

process_key(g, key) ==
    IF g.state = MENU
    THEN IF key = "1" THEN Ret([g EXCEPT !.target_laps = 5], "run_countdown")
         ELSE IF key = "2" THEN Ret([g EXCEPT !.target_laps = 10], "run_countdown")
         ELSE IF key = "3" THEN Ret([g EXCEPT !.target_laps = 15], "run_countdown")
         ELSE IF key = "4" THEN Ret([g EXCEPT !.target_laps = 20], "run_countdown")
         ELSE IF key = "c" THEN Ret([g EXCEPT !.target_laps = 10], "run_countdown")
         ELSE IF key = "l" THEN Ret([g EXCEPT !.state = LEADERBOARD], "none")
         ELSE IF key = "q" THEN Ret(g, "KeyboardInterrupt")
         ELSE Ret(g, "none")
    ELSE IF g.state = FINISHED
    THEN IF key = "n" THEN NextPlayer(g)
         ELSE IF key = "r" THEN RaceAgain(g)
         ELSE IF key = "l" THEN Ret([g EXCEPT !.state = LEADERBOARD], "none")
         ELSE IF key = "m" THEN Ret([g EXCEPT !.state = MENU], "none")
         ELSE Ret(g, "none")
    ELSE IF g.state = LEADERBOARD
    THEN IF key = "m" THEN Ret([g EXCEPT !.state = MENU], "none")
         ELSE IF key = "c" THEN ClearResults(g)
         ELSE Ret(g, "none")
    ELSE NoBranch(g, key)

(***************************************************************************)
(* Inputs.                                                                 *)
(***************************************************************************)
Keys == {"1", "2", "3", "4", "c", "l", "q", "n", "r", "m", "x", "R"}

\* The keys of a session that runs one race: no way back from FINISHED.
RaceKeys == {"1", "2", "3", "4", "c", "l", "q", "x"}

UidA == << 4, 222, 173, 190, 239, 18, 52 >>
SpeedShort == << 0, 0, 128 >>
SpeedOne == << 0, 0, 128, 63 >>
SpeedHalf == << 0, 0, 0, 63, 7 >>

Notifications ==
    ({CHAR_EVENT_2} \X { << >>, << 4 >>, UidA })
    \cup ({CHAR_SERIAL_NUMBER} \X { << >>, << 72, 255 >> })
    \cup ({CHAR_EVENT_3} \X { SpeedShort, SpeedOne })
    \cup ({CHAR_EVENT_1} \X { << 1 >> })

\* The notifications the race reads: passes and car detection.
RaceNotifications ==
    ({CHAR_EVENT_2} \X { << >>, UidA })
    \cup ({CHAR_EVENT_3} \X { SpeedShort, SpeedOne, SpeedHalf })

(***************************************************************************)
(* Init: RaceGame() constructed, the portal connected and monitored, the   *)
(* main loop about to poll the keyboard.                                   *)
(***************************************************************************)
Init ==
    /\ game = InitGame
    /\ now = 0
    /\ mainpc = "loop"
    /\ cds = << >>
    /\ emitted = << >>
    /\ accepted = 0
    /\ started = 0
    /\ samples = 0
    /\ total_samples = 0
    /\ finishes = 0
    /\ finish_empty = FALSE
    /\ last_op = Op("init", << >>)
    /\ DashIdle
    /\ AppIdle

(***************************************************************************)
(* The clock advances.                                                     *)
(***************************************************************************)
Tick ==
    /\ now < MaxTime
    /\ now' = now + 1
    /\ UNCHANGED << game, mainpc, cds, emitted, accepted, started, samples,
                    total_samples, finishes, finish_empty, last_op >>
    /\ UNCHANGED << dashvars, appvars, libvars >>

(***************************************************************************)
(* A key is read by handle_input and processed.                            *)
(***************************************************************************)
KeyPress(k) ==
    /\ mainpc = "loop"
    /\ LET r == process_key(game, Lower(k))
       IN  /\ game' = IF r.call = "run_countdown"
                      THEN run_countdown_enter(r.game) ELSE r.game
           /\ cds' = IF r.call = "run_countdown"
                     THEN Append(cds, CountdownFirst) ELSE cds
           /\ emitted' = IF r.call = "run_countdown"
                         THEN << CountdownFirst >> ELSE emitted
           /\ accepted' = IF r.call = "run_countdown"
                          THEN accepted + 1 ELSE accepted
           /\ mainpc' = IF r.call = "run_countdown" THEN "await"
                        ELSE IF r.call = "KeyboardInterrupt" THEN "stopped"
                        ELSE "loop"
           /\ last_op' = IF r.call = "none" /\ r.game = game
                        THEN Op("key_ignored", << >>)
                        ELSE Op("key", << Lower(k) >>)
    /\ UNCHANGED << now, started, samples, total_samples, finishes,
                    finish_empty >>
    /\ UNCHANGED << dashvars, appvars, libvars >>

\* the countdown with start_race inside its loop
CountdownTick_starts_in_loop ==
    \E idx \in 1..Len(cds) :
        /\ cds[idx] > 0
        /\ game' = start_race(run_countdown_iter(game, cds[idx] - 1), now)
        /\ cds' = [cds EXCEPT ![idx] = cds[idx] - 1]
        /\ emitted' = Append(emitted, cds[idx] - 1)
        /\ started' = started + 1
        /\ last_op' = Op("tick", << >>)
        /\ UNCHANGED << now, mainpc, accepted, samples,
                        total_samples, finishes, finish_empty >>
        /\ UNCHANGED << dashvars, appvars, libvars >>

(***************************************************************************)
(* A countdown wakes from asyncio.sleep(1) and runs its next iteration.    *)
(***************************************************************************)
CountdownTick ==
    \E idx \in 1..Len(cds) :
        /\ cds[idx] > 0
        /\ game' = run_countdown_iter(game, cds[idx] - 1)
        /\ cds' = [cds EXCEPT ![idx] = cds[idx] - 1]
        /\ emitted' = Append(emitted, cds[idx] - 1)
        /\ last_op' = Op("tick", << >>)
        /\ UNCHANGED << now, mainpc, accepted, started, samples,
                        total_samples, finishes, finish_empty >>
        /\ UNCHANGED << dashvars, appvars, libvars >>

(***************************************************************************)
(* A countdown wakes from its last sleep: the loop is over, start_race     *)
(* runs, and process_key returns to the main loop.                         *)
(***************************************************************************)
CountdownDone ==
    \E idx \in 1..Len(cds) :
        /\ cds[idx] = 0
        /\ game' = start_race(game, now)
        /\ cds' = SubSeq(cds, 1, idx - 1) \o SubSeq(cds, idx + 1, Len(cds))
        /\ mainpc' = "loop"
        /\ started' = started + 1
        /\ samples' = 0
        /\ finishes' = 0
        /\ last_op' = Op("start_race", << >>)
        /\ UNCHANGED << now, emitted, accepted, total_samples, finish_empty >>
        /\ UNCHANGED << dashvars, appvars, libvars >>


(***************************************************************************)
(* A notification arrives and the portal calls handle_event.               *)
(***************************************************************************)
\* handle_event as the portal calls it, and what is observed of it
GameHears(ch, data) ==
    /\ game' = handle_event(game, ch, data, now)
    /\ samples' = IF ch = CHAR_EVENT_3 /\ SpeedGuard(game, data)
                  THEN samples + 1 ELSE samples
    /\ total_samples' = IF ch = CHAR_EVENT_3 /\ SpeedGuard(game, data)
                        THEN total_samples + 1 ELSE total_samples
    /\ finishes' = finishes + (Len(game'.results) - Len(game.results))
    /\ finish_empty' = (finish_empty \/ FinishesEmpty(game, ch, data, now))
    /\ UNCHANGED << mainpc, cds, emitted, accepted, started >>

Notify(ch, data) ==
    /\ mainpc # "stopped"
    /\ is_connected(portal)
    /\ GameHears(ch, data)
    /\ last_op' = Op(EventLabel(game, ch, data),
                     IF ch = CHAR_EVENT_3 THEN data ELSE << >>)
    /\ UNCHANGED now
    /\ UNCHANGED << dashvars, appvars, libvars >>

(***************************************************************************)
(* Spec: a session with every key, bounded by the number of passes made    *)
(* while racing.                                                           *)
(***************************************************************************)
Next ==
    \/ Tick
    \/ \E k \in Keys : KeyPress(k)
    \/ CountdownTick
    \/ CountdownDone
    \/ \E n \in Notifications : Notify(n[1], n[2]) /\ total_samples' <= MaxSamples

Spec == Init /\ [][Next]_vars

(***************************************************************************)
(* SpecRace: a session of one race, at any of the menu's lap targets.      *)
(***************************************************************************)
NextRace ==
    \/ Tick
    \/ \E k \in RaceKeys : KeyPress(k)
    \/ CountdownTick
    \/ CountdownDone
    \/ \E n \in RaceNotifications : Notify(n[1], n[2])

SpecRace == Init /\ [][NextRace]_vars

(***************************************************************************)
(* SpecFinish: finish_race as a function of the session.  A race is under  *)
(* way with any short list of lap times, and finish_race is called on it.  *)
(***************************************************************************)
LapLists == UNION { [1..n -> 0..MaxLapDur] : n \in 0..MaxLapLen }

FinishInit ==
    /\ \E lt \in LapLists :
          /\ game = [InitGame EXCEPT !.state = RACING,
                                     !.target_laps = 5,
                                     !.countdown_value = 0,
                                     !.race_start_time = Some(0),
                                     !.lap_times = lt,
                                     !.current_lap = Len(lt),
                                     !.last_lap_time = Some(Sum(lt)),
                                     !.last_speed = Scale64(UnpackFloat(SpeedOne))]
          /\ now = Sum(lt)
          /\ samples = Len(lt) + 1
          /\ total_samples = Len(lt) + 1
    /\ mainpc = "loop"
    /\ cds = << >>
    /\ emitted = << 3, 2, 1, 0 >>
    /\ accepted = 1
    /\ started = 1
    /\ finishes = 0
    /\ finish_empty = FALSE
    /\ last_op = Op("init", << >>)
    /\ DashIdle
    /\ AppIdle

FinishCall ==
    /\ last_op.op = "init"
    /\ game' = finish_race(game)
    /\ finishes' = finishes + (Len(game'.results) - Len(game.results))
    /\ finish_empty' = (game.lap_times = << >>)
    /\ last_op' = Op("finish_race", << >>)
    /\ UNCHANGED << now, mainpc, cds, emitted, accepted, started, samples,
                    total_samples >>
    /\ UNCHANGED << dashvars, appvars, libvars >>

NextFinish == FinishCall

SpecFinish == FinishInit /\ [][NextFinish]_vars

(***************************************************************************)
(* Properties.                                                             *)
(***************************************************************************)
\* A step other than the clock's, and other than stuttering.
Acted == now' = now

\* The scaled speed a speed payload carries.
SampleSpeed(data) == Scale64(UnpackFloat(SubSeq(data, 1, 4)))

LastResult == game.results[Len(game.results)]

RacingSample(op) == op \in {"speed_first", "speed_lap"}

\* C1, as stated: once start_race has run, the N-th speed sample of a race
\* with target N finishes it (the state has left Racing and one result is
\* stored).
C1_FinishAfterNSamples ==
    (started >= 1 /\ samples = game.target_laps)
        => (game.state = FINISHED /\ finishes = 1)

\* C1, amended: once start_race has run, the race with target N is Racing
\* for its first N speed samples and Finished by sample N + 1 (the first
\* sample only starts the lap clock); exactly one result is appended, by
\* that sample.
C1_FinishAfterNPlusOneSamples ==
    started >= 1 =>
        /\ samples <= game.target_laps + 1
        /\ (game.state = RACING <=> samples <= game.target_laps)
        /\ finishes = (IF samples = game.target_laps + 1 THEN 1 ELSE 0)
        /\ (game.state = FINISHED => Len(game.results) = 1)

C1_Witness ==
    /\ game.state = FINISHED
    /\ game.target_laps = 15
    /\ samples = 16
    /\ finishes = 1
    /\ last_op.op = "speed_lap"

\* C2, as stated: while Racing, every speed sample appends one lap time and
\* adds one to current_lap.
C2_EverySampleIsALap ==
    [][(Acted /\ RacingSample(last_op'.op))
          => /\ Len(game'.lap_times) = Len(game.lap_times) + 1
             /\ game'.current_lap = game.current_lap + 1]_vars

\* C2, amended: while Racing, every speed sample but the first of the race
\* appends exactly one lap time (the time since the previous sample) and
\* adds exactly one to current_lap; the first sample of the race records no
\* lap and only stores its time.
C2_EverySampleButFirstIsALap ==
    [][(Acted /\ RacingSample(last_op'.op))
          => /\ game.state = RACING
             /\ game'.last_lap_time = Some(now)
             /\ IF game.last_lap_time = None
                THEN /\ last_op'.op = "speed_first"
                     /\ game'.lap_times = game.lap_times
                     /\ game'.current_lap = game.current_lap
                ELSE /\ last_op'.op = "speed_lap"
                     /\ game'.lap_times
                          = Append(game.lap_times, now - game.last_lap_time[1])
                     /\ game'.current_lap = game.current_lap + 1]_vars

C2_Witness ==
    /\ game.state = RACING
    /\ last_op.op = "speed_lap"
    /\ game.current_lap = 3
    /\ Len(game.lap_times) = 3
    /\ samples = 4

\* Sum of the first n entries, from the right.
RECURSIVE SumTo(_, _)
SumTo(s, n) == IF n = 0 THEN 0 ELSE SumTo(s, n - 1) + s[n]

\* C3: the result of finish_race has total_time the sum of the lap times,
\* best_lap their minimum at the 1-based position of its first occurrence,
\* worst_lap their maximum at the 1-based position of its first occurrence,
\* and avg_lap = total_time / lap_count; for [4, 2, 6]: best (2, lap 2),
\* worst (6, lap 3), total 12, average 4.
C3_ResultAggregates ==
    (last_op.op = "finish_race" /\ game.lap_times # << >>) =>
        LET r == LastResult
            lt == game.lap_times
            n == Len(lt)
        IN  /\ Len(game.results) = 1
            /\ r.lap_times = lt
            /\ r.total_time = SumTo(lt, n)
            /\ r.best_lap_num \in 1..n
            /\ lt[r.best_lap_num] = r.best_lap
            /\ \A i \in 1..n : r.best_lap <= lt[i]
            /\ \A i \in 1..(r.best_lap_num - 1) : lt[i] # r.best_lap
            /\ r.worst_lap_num \in 1..n
            /\ lt[r.worst_lap_num] = r.worst_lap
            /\ \A i \in 1..n : r.worst_lap >= lt[i]
            /\ \A i \in 1..(r.worst_lap_num - 1) : lt[i] # r.worst_lap
            /\ r.avg_lap.num = r.total_time
            /\ r.avg_lap.den = r.lap_count
            /\ r.lap_count = n
            /\ (lt = << 4, 2, 6 >> =>
                  /\ r.best_lap = 2 /\ r.best_lap_num = 2
                  /\ r.worst_lap = 6 /\ r.worst_lap_num = 3
                  /\ r.total_time = 12
                  /\ r.avg_lap.num = 4 * r.avg_lap.den)

C3_Witness ==
    /\ last_op.op = "finish_race"
    /\ game.state = FINISHED
    /\ game.lap_times = << 4, 2, 6 >>
    /\ Len(game.results) = 1

\* C4: every stored RaceResult has lap_count = Len(lap_times), lap_count
\* at least 1, and best_lap <= every lap time <= worst_lap.
C4_ResultInvariant ==
    \A i \in 1..Len(game.results) :
        LET r == game.results[i]
        IN  /\ r.lap_count = Len(r.lap_times)
            /\ r.lap_count >= 1
            /\ \A j \in 1..Len(r.lap_times) :
                  r.best_lap <= r.lap_times[j] /\ r.lap_times[j] <= r.worst_lap

C4_Witness ==
    /\ Len(game.results) = 1
    /\ LastResult.best_lap < LastResult.worst_lap
    /\ LastResult.lap_times[LastResult.lap_count] = LastResult.worst_lap

C6_IdleSampleFrame ==
    [][(Acted /\ last_op'.op = "speed_idle")
          => /\ game.state # RACING
             /\ game'.current_lap = game.current_lap
             /\ game'.lap_times = game.lap_times
             /\ game'.last_lap_time = game.last_lap_time
             /\ game'.results = game.results
             /\ game'.state = game.state]_vars

C6_Witness ==
    /\ last_op.op = "speed_idle"
    /\ game.state = FINISHED
    /\ game.last_lap_time # None
    /\ game.current_lap = 10

\* C7, as stated: after a speed sample that arrived while the state was not
\* Racing, last_speed is that sample's scaled speed.
C7_IdleSampleSetsSpeed ==
    last_op.op = "speed_idle" => game.last_speed = SampleSpeed(last_op.data)

\* C7, amended: a speed sample that arrives while the state is not Racing
\* changes no field of the game, last_speed included; last_speed becomes a
\* sample's scaled speed only for samples that arrive while Racing.
C7_IdleSampleChangesNothing ==
    [][Acted =>
          /\ last_op'.op = "speed_idle" => game' = game
          /\ RacingSample(last_op'.op)
                => game'.last_speed = SampleSpeed(last_op'.data)
          /\ game'.last_speed # game.last_speed
                => RacingSample(last_op'.op)]_vars

C7_Witness ==
    /\ last_op.op = "speed_idle"
    /\ game.state = FINISHED
    /\ game.last_speed # FloatZero
    /\ game.last_speed # SampleSpeed(last_op.data)

IsPrefix(s, t) == Len(s) <= Len(t) /\ \A i \in 1..Len(s) : s[i] = t[i]

\* C8: a countdown emits 3, 2, 1, 0 in that order while the state stays
\* Countdown, and only then start_race moves to Racing with current_lap 0,
\* no lap times and no last-pass time; Racing is entered in no other way.
C8_CountdownThenRace ==
    /\ [](/\ (Len(cds) > 0 <=> game.state = COUNTDOWN)
          /\ (game.state = COUNTDOWN =>
                /\ emitted # << >>
                /\ IsPrefix(emitted, << 3, 2, 1, 0 >>)
                /\ game.countdown_value = emitted[Len(emitted)]))
    /\ [][(game'.state = RACING /\ game.state # RACING)
             => /\ game.state = COUNTDOWN
                /\ emitted = << 3, 2, 1, 0 >>
                /\ last_op'.op = "start_race"
                /\ game'.current_lap = 0
                /\ game'.lap_times = << >>
                /\ game'.last_lap_time = None]_vars

C8_Witness ==
    /\ last_op.op = "start_race"
    /\ game.state = RACING
    /\ started = 2
    /\ emitted = << 3, 2, 1, 0 >>
    /\ game.results # << >>

\* C9: at most one countdown is in progress, the main loop reads no key
\* while it is, and start_race has run once for every accepted start
\* command whose countdown is over.
C9_OneCountdown ==
    /\ Len(cds) <= 1
    /\ (mainpc = "await" <=> Len(cds) = 1)
    /\ started + Len(cds) = accepted

C9_Witness ==
    /\ accepted = 2
    /\ started = 1
    /\ Len(cds) = 1
    /\ game.state = COUNTDOWN

\* The lap target of a menu key.
MenuTarget(key) ==
    CASE key = "1" -> 5 [] key = "2" -> 10 [] key = "3" -> 15 [] key = "4" -> 20

\* C10: the state starts at Menu; keys 1-4 in Menu move to Countdown with
\* target_laps 5, 10, 15, 20; target_laps changes in no step other than a
\* Menu selection that moves to Countdown.
C10_MenuSelectsTarget ==
    /\ game.state = MENU
    /\ [][/\ (Acted /\ game.state = MENU /\ last_op'.op = "key"
                /\ last_op'.data[1] \in {"1", "2", "3", "4"})
             => /\ game'.state = COUNTDOWN
                /\ game'.target_laps = MenuTarget(last_op'.data[1])
          /\ game'.target_laps # game.target_laps
             => /\ game.state = MENU
                /\ game'.state = COUNTDOWN
                /\ last_op'.op = "key"
                /\ last_op'.data[1] \in {"1", "2", "3", "4", "c"}]_vars

C10_Witness ==
    /\ last_op = Op("key", << "3" >>)
    /\ game.state = COUNTDOWN
    /\ game.target_laps = 15
    /\ Len(game.results) = 1
    /\ LastResult.lap_count = 5

\* C11: from Finished a key step is one of exactly four transitions: n
\* moves to Menu with the player counter one higher and the player named
\* after the new counter; r moves to Countdown with the same player and the
\* same target; l moves to Leaderboard; m moves to Menu.  Finished is left
\* by no other step, and none of the four changes the stored results.
C11_FinishedTransitions ==
    [][game.state = FINISHED =>
         /\ (Acted /\ last_op'.op = "key") =>
               LET key == last_op'.data[1]
               IN  /\ key \in {"n", "r", "l", "m"}
                   /\ key = "n" =>
                        /\ game'.state = MENU
                        /\ game'.player_count = game.player_count + 1
                        /\ game'.current_player
                             = PlayerName(game'.player_count)
                   /\ key = "r" =>
                        /\ game'.state = COUNTDOWN
                        /\ game'.current_player = game.current_player
                        /\ game'.player_count = game.player_count
                        /\ game'.target_laps = game.target_laps
                   /\ key = "l" => game'.state = LEADERBOARD
                   /\ key = "m" => game'.state = MENU
                   /\ key # "n" =>
                        /\ game'.current_player = game.current_player
                        /\ game'.player_count = game.player_count
                   /\ game'.results = game.results
         /\ game'.state # FINISHED => (Acted /\ last_op'.op = "key")]_vars

C11_Witness ==
    /\ last_op = Op("key", << "n" >>)
    /\ game.state = MENU
    /\ game.player_count = 2
    /\ game.current_player = PlayerName(2)
    /\ Len(game.results) = 1
    /\ LastResult.player_name = PlayerName(1)

(***************************************************************************)
(* RaceGame.create_leaderboard_display: the rows of the leaderboard table. *)
(* sorted() builds a new list and leaves self.results alone; it is stable, *)
(* so an element goes behind every element whose key is not greater.       *)
(***************************************************************************)
TopRows == 10

RECURSIVE InsertByTotal(_, _)
InsertByTotal(rs, r) ==
    IF rs = << >> THEN << r >>
    ELSE IF r.total_time < rs[1].total_time THEN << r >> \o rs
    ELSE << rs[1] >> \o InsertByTotal(Tail(rs), r)

RECURSIVE sorted_newest_first(_)
\* the sort taking the results from the newest to the oldest
sorted_newest_first(rs) ==
    IF rs = << >> THEN << >>
    ELSE InsertByTotal(sorted_newest_first(Tail(rs)), rs[1])

RECURSIVE sorted_results(_)
\* sorted(self.results, key=lambda r: r.total_time)
sorted_results(rs) ==
    IF rs = << >> THEN << >>
    ELSE InsertByTotal(sorted_results(SubSeq(rs, 1, Len(rs) - 1)),
                       rs[Len(rs)])

\* xs[:n]
Take(xs, n) == SubSeq(xs, 1, IF Len(xs) < n THEN Len(xs) ELSE n)

\* the results the table shows, one row each, from the top
create_leaderboard_display(g) ==
    IF g.results = << >> THEN << >>
    ELSE Take(sorted_results(g.results), TopRows)

\* C12: in Leaderboard the key m moves to Menu and leaves the results as
\* they are, the key c stays in Leaderboard and empties the results, and no
\* other key does anything there; while the results are empty the ranking
\* is empty, and they stay empty until a pass finishes a race.
C12_LeaderboardKeys ==
    /\ [](game.results = << >> =>
            /\ sorted_results(game.results) = << >>
            /\ create_leaderboard_display(game) = << >>)
    /\ [][/\ (Acted /\ game.state = LEADERBOARD /\ last_op'.op = "key") =>
                LET key == last_op'.data[1]
                IN  /\ key \in {"m", "c"}
                    /\ key = "m" => /\ game'.state = MENU
                                    /\ game'.results = game.results
                    /\ key = "c" => /\ game'.state = LEADERBOARD
                                    /\ game'.results = << >>
          /\ (game.results = << >> /\ game'.results # << >>) =>
                /\ last_op'.op = "speed_lap"
                /\ game.state = RACING
                /\ game'.state = FINISHED
                /\ Len(game'.results) = 1]_vars

C12_Witness ==
    /\ last_op = Op("key", << "c" >>)
    /\ game.state = LEADERBOARD
    /\ game.results = << >>
    /\ started = 1
    /\ total_samples = 6

\* The keys of the transitions the state machine is described with: the
\* lap selections of Menu, the four keys of Finished, the two of
\* Leaderboard.
DescribedKeys(state) ==
    CASE state = MENU -> {"1", "2", "3", "4", "c"}
      [] state = FINISHED -> {"n", "r", "l", "m"}
      [] state = LEADERBOARD -> {"m", "c"}
      [] OTHER -> {}

\* The keys process_key has a branch for.
BranchKeys(state) ==
    IF state = MENU THEN DescribedKeys(MENU) \cup {"l", "q"}
    ELSE DescribedKeys(state)

\* The step is a key read by handle_input, and the key is none of `keys`.
KeyOutside(keys) ==
    /\ Acted
    /\ last_op'.op \in {"key", "key_ignored"}
    /\ last_op'.op = "key" => last_op'.data[1] \notin keys

\* The key did nothing: the session and the results are as before, and the
\* main loop goes on.
KeyIgnored ==
    /\ game'.state = game.state
    /\ game'.target_laps = game.target_laps
    /\ game'.current_lap = game.current_lap
    /\ game'.lap_times = game.lap_times
    /\ game'.current_player = game.current_player
    /\ game'.player_count = game.player_count
    /\ game'.results = game.results
    /\ mainpc' = "loop"

\* C13, as stated: a key that is not one of the described transitions of
\* the current state (lap selection in Menu; n, r, l, m in Finished; m, c
\* in Leaderboard) is ignored: state, target, lap counter, lap list,
\* player and results are unchanged and nothing is raised.
C13_UndescribedKeyIgnored ==
    [][KeyOutside(DescribedKeys(game.state)) => KeyIgnored]_vars

\* C13, amended: Menu also has the keys l (to Leaderboard) and q (raises
\* KeyboardInterrupt, which ends the main loop); a key the current state
\* has no branch for - every key while Racing - is ignored.
C13_UnhandledKeyIgnored ==
    [][KeyOutside(BranchKeys(game.state)) => KeyIgnored]_vars

C13_Witness ==
    /\ last_op.op = "key_ignored"
    /\ game.state = RACING
    /\ game.current_lap = 2
    /\ mainpc = "loop"

(***************************************************************************)
(* SpecBoard: the leaderboard as a function of the stored results.  The    *)
(* session has seen n races, one player each, and shows the leaderboard;   *)
(* the main loop draws it, and the key c clears it.  Total times are in    *)
(* half seconds: 17, 20 and 24 stand for 8.5 s, 10.0 s and 12.0 s.         *)
(***************************************************************************)
MaxBoardShort == 3
MaxBoardLen == 11

BoardTotals == {17, 20, 24}
BoardTies == {20, 24}

TotalLists ==
    UNION ( { [1..n -> BoardTotals] : n \in 0..MaxBoardShort }
            \cup { [1..n -> BoardTies] :
                     n \in (MaxBoardShort + 1)..MaxBoardLen } )

\* five laps that take `total` together
BoardLaps(total) == << total - 12, 3, 3, 3, 3 >>

\* the session when player i has finished a race of `total`
BoardSession(i, total) ==
    [InitGame EXCEPT !.target_laps = 5,
                     !.countdown_value = 0,
                     !.current_player = PlayerName(i),
                     !.player_count = i,
                     !.lap_times = BoardLaps(total),
                     !.current_lap = 5,
                     !.race_start_time = Some(0),
                     !.last_lap_time = Some(0),
                     !.last_speed = Scale64(UnpackFloat(SpeedOne))]

BoardInit ==
    /\ \E totals \in TotalLists :
          LET n == Len(totals)
              rs == [i \in 1..n |-> RaceResultOf(BoardSession(i, totals[i]))]
          IN  /\ game = IF n = 0
                        THEN [InitGame EXCEPT !.state = LEADERBOARD]
                        ELSE [BoardSession(n, totals[n])
                                EXCEPT !.state = LEADERBOARD,
                                       !.results = rs]
              /\ accepted = n
              /\ started = n
              /\ samples = IF n = 0 THEN 0 ELSE 6
              /\ total_samples = 6 * n
              /\ finishes = IF n = 0 THEN 0 ELSE 1
              /\ emitted = IF n = 0 THEN << >> ELSE << 3, 2, 1, 0 >>
    /\ now = 0
    /\ mainpc = "loop"
    /\ cds = << >>
    /\ finish_empty = FALSE
    /\ last_op = Op("init", << >>)
    /\ DashIdle
    /\ AppIdle

\* live.update(self.build_display()) while the leaderboard is shown
BoardRender ==
    /\ mainpc = "loop"
    /\ game.state = LEADERBOARD
    /\ last_op' = Op("leaderboard", create_leaderboard_display(game))
    /\ UNCHANGED << game, now, mainpc, cds, emitted, accepted, started,
                    samples, total_samples, finishes, finish_empty >>
    /\ UNCHANGED << dashvars, appvars, libvars >>

NextBoard ==
    \/ BoardRender
    \/ KeyPress("c")

SpecBoard == BoardInit /\ [][NextBoard]_vars

\* the total times of a list of results
Totals(rs) == [i \in 1..Len(rs) |-> rs[i].total_time]

\* C14: the ranking holds every stored result once, ascending by
\* total_time, results of equal total_time in the order they were stored;
\* the table shows the first 10 of the ranking; drawing it leaves the
\* stored results as they are; with no result stored it shows nothing.
\* Results of 10.0, 8.5, 12.0 rank as 8.5, 10.0, 12.0.
C14_Ranking ==
    /\ [](LET rs == game.results
              rank == sorted_results(rs)
          IN  /\ Len(rank) = Len(rs)
              /\ Range(rank) = Range(rs)
              /\ \A i, j \in 1..Len(rank) :
                    i < j =>
                      /\ rank[i].total_time <= rank[j].total_time
                      /\ rank[i].total_time = rank[j].total_time
                           => Index(rs, rank[i]) < Index(rs, rank[j])
              /\ Totals(rs) = << 20, 17, 24 >>
                    => Totals(rank) = << 17, 20, 24 >>
              /\ rs = << >> => rank = << >>
              /\ last_op.op = "leaderboard" =>
                    /\ Len(last_op.data) = IF Len(rs) < 10 THEN Len(rs)
                                           ELSE 10
                    /\ \A i \in 1..Len(last_op.data) :
                          last_op.data[i] = rank[i])
    /\ [][last_op'.op = "leaderboard" => game'.results = game.results]_vars

C14_Witness ==
    /\ last_op.op = "leaderboard"
    /\ Len(game.results) = 11
    /\ Len(last_op.data) = 10
    /\ Totals(game.results) = << 24, 20, 24, 20, 24, 20, 24, 20, 24, 20, 24 >>
    /\ Totals(last_op.data) = << 20, 20, 20, 20, 20, 24, 24, 24, 24, 24 >>
    /\ last_op.data[1].player_name = PlayerName(2)
    /\ last_op.data[10].player_name = PlayerName(9)

(***************************************************************************)
(* SpecDash: a dashboard session.  The portal calls Dashboard.handle_event *)
(* for every notification; the wall clock moves between notifications, or  *)
(* does not (two notifications can read the same datetime.now()).          *)
(* pass_log is an observation: the time, scaled speed and current car of   *)
(* every speed payload of at least 4 bytes, in arrival order.              *)
(* SpecDash has one car and every channel; SpecCars has two cars and one   *)
(* speed; SpecPasses has no car and enough passes to fill the recent list. *)
(***************************************************************************)
MaxPasses == 3

racevars == << game, mainpc, cds, emitted, accepted, started, samples,
               total_samples, finishes, finish_empty >>

\* the clock readings of the session
PassTimes == {0, 5, 12}

UidB == << 4, 1, 35, 69, 103, 137, 171 >>

SerialH == << 72 >>

DashNotifications ==
    ({CHAR_EVENT_2} \X {<< >>, << 4 >>, UidA})
      \cup ({CHAR_SERIAL_NUMBER} \X {<< >>, SerialH})
      \cup ({CHAR_EVENT_3} \X {SpeedShort, SpeedOne, SpeedHalf})
      \cup ({CHAR_EVENT_1} \X {<< 1 >>})

DashInit ==
    /\ game = InitGame
    /\ now = 0
    /\ mainpc = "loop"
    /\ cds = << >>
    /\ emitted = << >>
    /\ accepted = 0
    /\ started = 0
    /\ samples = 0
    /\ total_samples = 0
    /\ finishes = 0
    /\ finish_empty = FALSE
    /\ last_op = Op("init", << >>)
    /\ dash = InitDash
    /\ pass_log = << >>
    /\ AppIdle

\* the clock moves on to a later one of `times`
ClockTo(times) ==
    /\ \E t \in times : t > now /\ now' = t
    /\ UNCHANGED << racevars, last_op, dash, pass_log, appvars, libvars >>

DashTick == ClockTo(PassTimes)

\* the branch of Dashboard.handle_event a notification takes
DashLabel(d, ch, data) ==
    IF ch = CHAR_EVENT_2
    THEN IF Len(data) >= 7 THEN "detect"
         ELSE IF Len(data) = 0 THEN "remove" ELSE "detect_short"
    ELSE IF ch = CHAR_SERIAL_NUMBER
    THEN IF Len(data) > 0 /\ d.current_car # None THEN "serial"
         ELSE "serial_none"
    ELSE IF ch = CHAR_EVENT_3
    THEN IF DashSpeedGuard(data) THEN "pass" ELSE "speed_short"
    ELSE "other"

\* Dashboard.handle_event as the portal calls it, and its pass if any
DashHears(ch, data) ==
    /\ dash' = Dashboard_handle_event(dash, ch, data, now)
    /\ pass_log' = IF ch = CHAR_EVENT_3 /\ Len(data) >= 4
                   THEN Append(pass_log,
                               [time |-> now,
                                speed |-> Scale64(UnpackFloat(SubSeq(data, 1, 4))),
                                car |-> dash.current_car])
                   ELSE pass_log

DashNotify(ch, data) ==
    /\ DashHears(ch, data)
    /\ last_op' = Op(DashLabel(dash, ch, data),
                     IF ch = CHAR_EVENT_3 THEN data ELSE << >>)
    /\ UNCHANGED << racevars, now, appvars, libvars >>

NextDash ==
    \/ DashTick
    \/ \E n \in DashNotifications :
          DashNotify(n[1], n[2]) /\ dash'.total_passes <= MaxPasses

SpecDash == DashInit /\ [][NextDash]_vars

\* SpecCars: two cars taking turns on the portal.
CarTimes == {0, 5}

CarNotifications ==
    ({CHAR_EVENT_2} \X {<< >>, << 4 >>, UidA, UidB})
      \cup ({CHAR_SERIAL_NUMBER} \X {SerialH})
      \cup ({CHAR_EVENT_3} \X {SpeedOne})

NextCars ==
    \/ ClockTo(CarTimes)
    \/ \E n \in CarNotifications :
          DashNotify(n[1], n[2]) /\ dash'.total_passes <= MaxPasses

SpecCars == DashInit /\ [][NextCars]_vars

\* SpecPasses: speed payloads only, more of them than the recent list holds.
MaxLongPasses == 11

PassNotifications == {CHAR_EVENT_3} \X {SpeedShort, SpeedOne, SpeedHalf}

NextPasses ==
    \E n \in PassNotifications :
        DashNotify(n[1], n[2]) /\ dash'.total_passes <= MaxLongPasses

SpecPasses == DashInit /\ [][NextPasses]_vars

(***************************************************************************)
(* Properties of the dashboard.                                            *)
(***************************************************************************)
\* the lap times of a list of pass records
LapTimesOf(ps) == [i \in 1..Len(ps) |-> ps[i].lap_time]

\* the clock readings of a list of pass records
TimesOf(ps) == [i \in 1..Len(ps) |-> ps[i].time]

\* C15: the first pass of a session is recorded with no lap time, every
\* later pass with its own clock reading minus the reading of the pass
\* before it; passes at 0, 5 and 12 are recorded with none, 5 and 7.
C15_LapDurations ==
    LET ps == dash.recent_passes
    IN  /\ Len(ps) = Len(pass_log)
        /\ \A i \in 1..Len(ps) :
              /\ ps[i].time = pass_log[i].time
              /\ ps[i].lap_time =
                    IF i = 1 THEN None
                    ELSE Some(pass_log[i].time - pass_log[i - 1].time)
        /\ TimesOf(pass_log) = << 0, 5, 12 >>
              => LapTimesOf(ps) = << None, Some(5), Some(7) >>

C15_Witness ==
    /\ last_op.op = "pass"
    /\ TimesOf(pass_log) = << 0, 5, 12 >>
    /\ LapTimesOf(dash.recent_passes) = << None, Some(5), Some(7) >>
    /\ dash.last_pass_time = Some(12)

\* C16: after n passes the recent list holds the last min(n, 10) of them in
\* arrival order; it never holds more than 10, and a pass pushed onto a
\* full list evicts the oldest entry.
C16_RecentPasses ==
    /\ [](LET ps == dash.recent_passes
              n == Len(pass_log)
              k == IF n < 10 THEN n ELSE 10
          IN  /\ n = dash.total_passes
              /\ Len(ps) = k
              /\ Len(ps) <= 10
              /\ \A i \in 1..k :
                    /\ ps[i].speed = pass_log[n - k + i].speed
                    /\ ps[i].time = pass_log[n - k + i].time)
    /\ [][(last_op'.op = "pass" /\ Len(dash.recent_passes) = 10) =>
             /\ Len(dash'.recent_passes) = 10
             /\ \A i \in 1..9 :
                   dash'.recent_passes[i] = dash.recent_passes[i + 1]
             /\ dash'.recent_passes[10].speed = SampleSpeed(last_op'.data)]_vars

C16_Witness ==
    /\ dash.total_passes = 11
    /\ Len(dash.recent_passes) = 10
    /\ pass_log[1].speed # pass_log[2].speed
    /\ dash.recent_passes[1].speed = pass_log[2].speed
    /\ dash.recent_passes[10].speed = pass_log[11].speed

\* The step is the handling of a speed-channel notification.
SpeedStep == Acted /\ last_op'.op \in {"pass", "speed_short"}

\* C17: total_passes starts at 0 and never decreases; a speed payload of
\* at least 4 bytes adds one to it, with or without a car on the portal,
\* and nothing else changes it; a shorter speed payload changes nothing:
\* not total_passes, the last pass time, the recent list or any car.
C17_TotalPasses ==
    /\ dash.total_passes = 0
    /\ [](dash.total_passes = Len(pass_log))
    /\ [][/\ dash'.total_passes >= dash.total_passes
          /\ (SpeedStep /\ Len(last_op'.data) >= 4)
                => dash'.total_passes = dash.total_passes + 1
          /\ (SpeedStep /\ Len(last_op'.data) < 4)
                => /\ dash'.total_passes = dash.total_passes
                   /\ dash'.last_pass_time = dash.last_pass_time
                   /\ dash'.recent_passes = dash.recent_passes
                   /\ dash'.car_database = dash.car_database
          /\ dash'.total_passes # dash.total_passes
                => (SpeedStep /\ Len(last_op'.data) >= 4)]_vars

C17_Witness ==
    /\ last_op = Op("speed_short", SpeedShort)
    /\ dash.total_passes = 2
    /\ pass_log[1].car # None
    /\ pass_log[2].car = None
    /\ dash.last_pass_time = Some(5)
    /\ now = 12

\* the registered cars
Cars == DOMAIN dash.car_database

\* C18: a pass with a car on the portal appends the scaled speed to that
\* car's speeds and adds one to its laps; hence for every registered car
\* laps is the length of speeds, and best_speed is the greatest of 0.0 (its
\* initial value) and the speeds.
C18_SpeedHistory ==
    /\ [](\A u \in Cars :
            LET c == dash.car_database[u]
                all == {FloatZero} \cup Range(c.speeds)
            IN  /\ c.laps = Len(c.speeds)
                /\ c.best_speed \in all
                /\ \A s \in all : ~FloatGt(s, c.best_speed))
    /\ [][(Acted /\ last_op'.op = "pass" /\ dash.current_car # None) =>
             LET u == dash.current_car[1]
             IN  /\ dash'.car_database[u].speeds
                      = Append(dash.car_database[u].speeds,
                               SampleSpeed(last_op'.data))
                 /\ dash'.car_database[u].laps
                      = dash.car_database[u].laps + 1]_vars

C18_Witness ==
    /\ last_op = Op("pass", SpeedHalf)
    /\ dash.current_car # None
    /\ LET c == dash.car_database[dash.current_car[1]]
       IN  /\ c.speeds = << SampleSpeed(SpeedOne), SampleSpeed(SpeedHalf) >>
           /\ c.laps = 2
           /\ c.best_speed = SampleSpeed(SpeedOne)
    /\ dash.total_passes = 3

\* C19: a pass with a car on the portal and an earlier pass in the session
\* appends its lap duration to the car's lap_times and makes best_lap the
\* smaller of the previous best_lap and the duration; hence best_lap is
\* infinite exactly while lap_times is empty and is its minimum otherwise.
C19_LapHistory ==
    /\ [](\A u \in Cars :
            LET c == dash.car_database[u]
            IN  /\ c.best_lap.inf <=> c.lap_times = << >>
                /\ c.lap_times # << >> => c.best_lap.v = Min(c.lap_times))
    /\ [][(/\ Acted
           /\ last_op'.op = "pass"
           /\ dash.current_car # None
           /\ dash.last_pass_time # None) =>
             LET u == dash.current_car[1]
                 c == dash.car_database[u]
                 duration == now - dash.last_pass_time[1]
             IN  /\ dash'.car_database[u].lap_times
                      = Append(c.lap_times, duration)
                 /\ dash'.car_database[u].best_lap
                      = IF LessThanBest(duration, c.best_lap)
                        THEN Seconds(duration) ELSE c.best_lap]_vars

\* Two passes of one car read the same clock: the second is recorded with
\* a lap time of 0, and the car's lap_times and best_lap are left alone.
C19_Witness ==
    /\ last_op.op = "pass"
    /\ dash.current_car # None
    /\ dash.total_passes = 2
    /\ TimesOf(pass_log) = << 5, 5 >>
    /\ dash.recent_passes[2].lap_time = Some(0)
    /\ LET c == dash.car_database[dash.current_car[1]]
       IN  /\ c.laps = 2
           /\ c.lap_times = << >>
           /\ c.best_lap = Infinity

\* what a car has accumulated: every field but the time it was last seen
Statistics(c) ==
    [ nfc_uid |-> c.nfc_uid, serial |-> c.serial, name |-> c.name,
      laps |-> c.laps, speeds |-> c.speeds, lap_times |-> c.lap_times,
      best_speed |-> c.best_speed, best_lap |-> c.best_lap ]

\* C20: the registry never loses an identifier; detecting a registered
\* car makes its existing record the current one, statistics intact;
\* detecting a new car registers a record with no laps, no speeds, no lap
\* times, best_speed 0.0 and no best lap; a removal changes no record, so
\* a car that is removed and detected again goes on from its statistics.
C20_Registry ==
    /\ [](/\ \A u \in Cars : dash.car_database[u].nfc_uid = u
          /\ dash.current_car # None => dash.current_car[1] \in Cars)
    /\ [][/\ Cars \subseteq DOMAIN dash'.car_database
          /\ (Acted /\ last_op'.op = "detect") =>
                LET u == dash'.current_car[1]
                IN  /\ DOMAIN dash'.car_database = Cars \cup {u}
                    /\ u \in Cars =>
                          Statistics(dash'.car_database[u])
                            = Statistics(dash.car_database[u])
                    /\ u \notin Cars =>
                          Statistics(dash'.car_database[u])
                            = [ nfc_uid |-> u, serial |-> << >>,
                                name |-> << >>, laps |-> 0,
                                speeds |-> << >>, lap_times |-> << >>,
                                best_speed |-> FloatZero,
                                best_lap |-> Infinity ]
                    /\ \A v \in Cars \ {u} :
                          dash'.car_database[v] = dash.car_database[v]
          /\ (Acted /\ last_op'.op = "remove") =>
                /\ dash'.current_car = None
                /\ dash'.car_database = dash.car_database]_vars

C20_Witness ==
    /\ last_op.op = "detect"
    /\ dash.current_car = Some(FormatUid(UidA))
    /\ Cars = {FormatUid(UidA), FormatUid(UidB)}
    /\ LET a == dash.car_database[FormatUid(UidA)]
           b == dash.car_database[FormatUid(UidB)]
       IN  /\ a.laps = 2
           /\ a.lap_times = << 5 >>
           /\ a.last_seen = 5
           /\ b.laps = 1
           /\ b.last_seen = 5
    /\ TimesOf(pass_log) = << 0, 5, 5 >>


(***************************************************************************)
(* Who writes a CarStats record.                                           *)
(***************************************************************************)

\* The fields of a CarStats record that a pass writes.
PassFields(c) ==
    [ laps |-> c.laps, speeds |-> c.speeds, lap_times |-> c.lap_times,
      best_speed |-> c.best_speed, best_lap |-> c.best_lap ]

\* The step is the handling of a notification that is not a counted pass.
NonPassStep == Acted /\ last_op'.op # "pass"

\* The step is the handling of a counted pass.
PassStep == Acted /\ last_op'.op = "pass"

\* C21 as stated: a registered car's record is changed by nothing but the
\* pass for which it is the active car: no other notification changes any
\* field of a registered record, a pass changes no record but the active
\* car's, and a pass with no active car changes no record.
C21_OnlyPassMutates ==
    [][/\ NonPassStep =>
             \A u \in Cars : dash'.car_database[u] = dash.car_database[u]
       /\ PassStep =>
             \A u \in Cars :
                (dash.current_car = None \/ u # dash.current_car[1]) =>
                    dash'.car_database[u] = dash.car_database[u]]_vars

\* C21: the lap count, the speed and lap-time histories and the two bests
\* of a registered record are changed only by the pass for which it is
\* the active car; a pass changes no record but the active car's and a
\* pass with no active car changes none.  Two other fields are written
\* outside a pass, each in the current car's record alone: a detection
\* stamps last_seen, and a non-empty serial payload stores the serial.
C21_RecordWriters ==
    [][/\ NonPassStep =>
             \A u \in Cars :
                PassFields(dash'.car_database[u])
                    = PassFields(dash.car_database[u])
       /\ PassStep =>
             \A u \in Cars :
                (dash.current_car = None \/ u # dash.current_car[1]) =>
                    dash'.car_database[u] = dash.car_database[u]
       /\ (Acted /\ last_op'.op = "detect") =>
             \A u \in Cars :
                /\ dash'.car_database[u]
                     = [dash.car_database[u] EXCEPT
                          !.last_seen =
                              IF Some(u) = dash'.current_car
                              THEN now ELSE @]
       /\ (Acted /\ last_op'.op = "serial") =>
             \A u \in Cars :
                /\ dash'.car_database[u]
                     = [dash.car_database[u] EXCEPT
                          !.serial =
                              IF Some(u) = dash.current_car
                              THEN dash'.car_database[u].serial ELSE @]
       /\ (Acted /\ last_op'.op \notin {"pass", "detect", "serial"}) =>
             dash'.car_database = dash.car_database]_vars

\* Two cars are registered with a pass each; the first was detected again
\* later and the second, now on the portal, has had its serial stored.
C21_Witness ==
    /\ last_op.op = "serial"
    /\ Cars = {FormatUid(UidA), FormatUid(UidB)}
    /\ dash.current_car = Some(FormatUid(UidB))
    /\ LET a == dash.car_database[FormatUid(UidA)]
           b == dash.car_database[FormatUid(UidB)]
       IN  /\ a.laps = 1 /\ a.serial = << >> /\ a.last_seen = 5
           /\ b.laps = 1 /\ b.serial = DecodeUtf8(SerialH)


(***************************************************************************)
(* SpecApp: portal_app.py listening to the portal.  The identity-record    *)
(* payloads vary in type length, payload length, type byte, prefix code    *)
(* and content.                                                            *)
(***************************************************************************)
\* "pid.mattel/AB", then two bytes more
TailMattel ==
    << 112, 105, 100, 46, 109, 97, 116, 116, 101, 108, 47, 65, 66, 7, 8 >>

\* U+00E9, an invalid byte, "ab"
TailAccent == << 195, 169, 255, 97, 98 >>

\* << header, type_len, payload_len, type byte, prefix code >>, then a tail
NdefPayloads ==
    { << 209, tl, pl, t, c >> \o tail :
        tl \in {0, 1, 2}, pl \in {0, 3, 14, 16}, t \in {85, 84},
        c \in {0, 1, 2, 3, 4, 5}, tail \in {TailMattel, TailAccent} }

\* nine bytes of a record
NdefShort == << 209, 1, 14, 85, 4, 112, 105, 100, 46 >>

\* the bytes of UidA under another type byte, with a byte after them
UidA2 == << 9 >> \o SubSeq(UidA, 2, 7) \o << 255 >>

ControlShort == << 0, 254 >>
ControlFull == << 0, 254, 0, 254, 0 >>

\* "H", then an invalid byte
SerialBad == << 72, 255 >>

CHAR_OTHER == "00002a26-0000-1000-8000-00805f9b34fb"

AppNotifications ==
    ({CHAR_EVENT_1} \X ({<< >>, << 1 >>, NdefShort} \cup NdefPayloads))
      \cup ({CHAR_EVENT_2} \X {<< >>, << 4 >>, UidA, UidA2})
      \cup ({CHAR_SERIAL_NUMBER} \X {<< >>, SerialBad})
      \cup ({CHAR_EVENT_3} \X {SpeedShort, SpeedOne})
      \cup ({CHAR_CONTROL} \X {ControlShort, ControlFull})
      \cup ({CHAR_OTHER} \X {<< 1 >>})

\* a notification, by its channel and payload
Event(ch, data) == [op |-> "event", ch |-> ch, data |-> data]

\* event_handler as the portal calls it, and the dict it prints
AppHears(ch, data) ==
    /\ current_car' = event_handler(current_car, ch, data)
    /\ printed' = Decoded(ch, data)

AppNotify(ch, data) ==
    /\ AppHears(ch, data)
    /\ last_op' = Event(ch, data)
    /\ UNCHANGED << racevars, now, dashvars, libvars >>

NextApp == \E n \in AppNotifications : AppNotify(n[1], n[2])

SpecApp == DashInit /\ [][NextApp]_vars

(***************************************************************************)
(* SpecChannels: the race game, the dashboard and portal_app.py hear the   *)
(* same notifications, each through its own callback; the race game is     *)
(* also taken from the menu into a race, and the portal is quiet while the *)
(* countdown runs.                                                         *)
(***************************************************************************)
MaxHeard == 1

ChannelNotifications ==
    ({CHAR_EVENT_1} \X {<< >>, << 1 >>, << 209, 1, 14, 85, 4 >> \o TailMattel})
      \cup ({CHAR_EVENT_2} \X {<< >>, << 4 >>, UidA, UidA2, UidB})
      \cup ({CHAR_SERIAL_NUMBER} \X {<< >>, SerialH})
      \cup ({CHAR_EVENT_3} \X {SpeedShort, SpeedOne})
      \cup ({CHAR_CONTROL} \X {ControlShort, ControlFull})

Deliver(ch, data) ==
    /\ mainpc = "loop"
    /\ GameHears(ch, data)
    /\ DashHears(ch, data)
    /\ AppHears(ch, data)
    /\ last_op' = Event(ch, data)
    /\ UNCHANGED << now, libvars >>

NextChannels ==
    \/ KeyPress("1")
    \/ CountdownTick
    \/ CountdownDone
    \/ \E n \in ChannelNotifications :
          Deliver(n[1], n[2]) /\ dash'.total_passes <= MaxHeard

SpecChannels == DashInit /\ [][NextChannels]_vars



(***************************************************************************)
(* The channels, as the three callbacks handle them.                       *)
(***************************************************************************)
\* The step is the handling of a notification on channel ch.
Heard(ch) == last_op'.op = "event" /\ last_op'.ch = ch

\* C22: on the detection channel the payload length alone selects the
\* outcome, in the race game, the dashboard and portal_app.py alike: an
\* empty payload is a removal (the current car becomes none), a payload of
\* 1 to 6 bytes leaves the current car as it was, and a payload of 7 bytes
\* or more makes the identifier decoded from its bytes 1 to 6 current.
C22_DetectionLengths ==
    [][Heard(CHAR_EVENT_2) =>
          LET data == last_op'.data
          IN  /\ Len(data) = 0 =>
                    /\ game'.current_car_uid = None
                    /\ dash'.current_car = None
                    /\ current_car'.nfc_uid = None
              /\ Len(data) \in 1..6 =>
                    /\ game'.current_car_uid = game.current_car_uid
                    /\ dash'.current_car = dash.current_car
                    /\ current_car'.nfc_uid = current_car.nfc_uid
              /\ Len(data) >= 7 =>
                    /\ game'.current_car_uid = Some(FormatUid(data))
                    /\ dash'.current_car = Some(FormatUid(data))
                    /\ current_car'.nfc_uid = Some(FormatUid(data))]_vars

\* An empty detection payload has just been handled: the race game and
\* the dashboard have no current car, portal_app.py still tracks the car.
C22_Witness ==
    /\ last_op = Event(CHAR_EVENT_2, << >>)
    /\ game.current_car_uid = None
    /\ dash.current_car = None
    /\ current_car.nfc_uid = Some(FormatUid(UidA))


\* The value of an upper-case hexadecimal digit.
HexValue(c) == CHOOSE v \in 0..15 : HexDigits[v + 1] = c

\* The text is six pairs of upper-case hexadecimal digits joined by
\* colons, and the pairs read back as the six bytes.
IsUidOf(text, bytes) ==
    /\ Len(text) = 17
    /\ \A k \in 1..5 : text[3 * k] = ":"
    /\ \A k \in 1..6 :
          /\ text[3 * k - 2] \in Range(HexDigits)
          /\ text[3 * k - 1] \in Range(HexDigits)
          /\ 16 * HexValue(text[3 * k - 2]) + HexValue(text[3 * k - 1])
               = bytes[k]

\* C23: the identifier of a detection payload of 7 bytes or more is the
\* six bytes at offsets 1 to 6 written as upper-case hexadecimal pairs
\* joined by colons: it reads back as exactly those bytes, so equal bytes
\* give equal identifiers whatever the type byte and the bytes after
\* offset 6, and different bytes give different identifiers; the race
\* game, the dashboard and portal_app.py produce the same text.
C23_Identifier ==
    (last_op.op = "event" /\ last_op.ch = CHAR_EVENT_2
        /\ Len(last_op.data) >= 7) =>
       /\ game.current_car_uid # None
       /\ IsUidOf(game.current_car_uid[1], SubSeq(last_op.data, 2, 7))
       /\ dash.current_car = game.current_car_uid
       /\ current_car.nfc_uid = game.current_car_uid
       /\ printed # None /\ printed[1].nfc_uid = game.current_car_uid[1]

\* Two cars are registered, and a payload with the bytes of the first
\* under another type byte, with a byte after them, selected the first.
C23_Witness ==
    /\ last_op = Event(CHAR_EVENT_2, UidA2)
    /\ UidA2[1] # UidA[1] /\ Len(UidA2) > Len(UidA)
    /\ Cars = {FormatUid(UidA), FormatUid(UidB)}
    /\ FormatUid(UidA) # FormatUid(UidB)
    /\ dash.current_car = Some(FormatUid(UidA))
    /\ game.current_car_uid = Some(FormatUid(UidA))
    /\ current_car.nfc_uid = Some(FormatUid(UidA))


\* C24: an empty payload on the identity-record channel is a no-op: it
\* changes nothing of the car that portal_app.py tracks (identifier,
\* serial, Mattel id, name).
C24_EmptyRecordNoOp ==
    [][(Heard(CHAR_EVENT_1) /\ Len(last_op'.data) = 0) =>
          current_car' = current_car]_vars

\* An empty identity-record payload has just been handled while a car was
\* on the portal: the race game and the dashboard still hold the car and
\* its serial, portal_app.py has forgotten them.
C24_Witness ==
    /\ last_op = Event(CHAR_EVENT_1, << >>)
    /\ game.current_car_uid = Some(FormatUid(UidA))
    /\ game.current_car_serial = Some(DecodeUtf8(SerialH))
    /\ dash.current_car = Some(FormatUid(UidA))
    /\ current_car = InitCurrentCar


(***************************************************************************)
(* The identity record, as portal_app.py decodes it.                       *)
(***************************************************************************)
\* The last step handled an identity-record payload of 10 bytes or more.
RecordDecoded ==
    /\ last_op.op = "event"
    /\ last_op.ch = CHAR_EVENT_1
    /\ Len(last_op.data) >= 10

\* The prefix table of the claim, by code: "", "http://www.",
\* "https://www.", "http://", "https://".
PrefixTable ==
    << << >>,
       << 104, 116, 116, 112, 58, 47, 47, 119, 119, 119, 46 >>,
       << 104, 116, 116, 112, 115, 58, 47, 47, 119, 119, 119, 46 >>,
       << 104, 116, 116, 112, 58, 47, 47 >>,
       << 104, 116, 116, 112, 115, 58, 47, 47 >> >>

\* C25: for an identity-record payload of 10 bytes or more whose record
\* type is the single character U, the decoded uri is the table's prefix
\* for the code followed by the decoded rest of the payload, the code
\* being the byte right after the record type; a code of 5 or more gives
\* the empty prefix, not an error.
C25_UriPrefix ==
    (RecordDecoded /\ last_op.data[2] = 1 /\ last_op.data[4] = 85) =>
       LET data == last_op.data
           tl == data[2]
           pl == data[3]
           code == data[3 + tl + 1]
           last == IF 3 + tl + pl < Len(data) THEN 3 + tl + pl ELSE Len(data)
           rest == SubSeq(data, 3 + tl + 2, last)
       IN  /\ printed # None
           /\ printed[1].kind = "ndef"
           /\ printed[1].uri =
                Some((IF code <= 4 THEN PrefixTable[code + 1] ELSE << >>)
                       \o DecodeUtf8(rest))

\* A record of type U with code 2 whose payload runs to the end of the
\* data was decoded: "https://www." and four characters, one of them the
\* replacement character.
C25_Witness ==
    /\ last_op = Event(CHAR_EVENT_1, << 209, 1, 16, 85, 2 >> \o TailAccent)
    /\ printed[1].uri =
         Some(<< 104, 116, 116, 112, 115, 58, 47, 47, 119, 119, 119, 46,
                 233, 65533, 97, 98 >>)


\* C26: for every identity-record payload of 10 bytes or more, with type
\* length tl and payload length pl, the signature is exactly the bytes at
\* offsets 3 + tl + pl and beyond, and is absent when there are none: for
\* every tl, not only tl = 1.
C26_Signature ==
    RecordDecoded =>
       LET data == last_op.data
           end == 3 + data[2] + data[3]
       IN  /\ printed # None
           /\ printed[1].kind = "ndef"
           /\ printed[1].signature =
                IF Len(data) > end
                THEN Some(BytesHex(SubSeq(data, end + 1, Len(data))))
                ELSE None

\* A 20-byte record with type length 2 and payload length 14 was decoded:
\* the record ends at offset 19, and the signature holds two bytes.
C26_Witness ==
    /\ last_op = Event(CHAR_EVENT_1, << 209, 2, 14, 84, 4 >> \o TailMattel)
    /\ Len(last_op.data) = 20
    /\ printed[1].signature = Some(BytesHex(<< 7, 8 >>))
    /\ printed[1].signature_len = Some(2)


(***************************************************************************)
(* Payloads shorter than their channel's minimum.                          *)
(***************************************************************************)
\* The payload is shorter than the minimum of its channel.
Short(ch, data) ==
    \/ ch = CHAR_EVENT_2 /\ Len(data) < 7
    \/ ch = CHAR_EVENT_3 /\ Len(data) < 4
    \/ ch = CHAR_EVENT_1 /\ Len(data) < 10
    \/ ch = CHAR_CONTROL /\ Len(data) < 5
    \/ ch = CHAR_SERIAL_NUMBER /\ Len(data) = 0

\* The decoder of the channel returns its fallback for the payload.
FallsBack(ch, data) ==
    /\ ch = CHAR_EVENT_2 => decode_car_event(data).kind = "raw"
    /\ ch = CHAR_EVENT_3 => decode_speed_event(data).kind = "raw"
    /\ ch = CHAR_EVENT_1 =>
          decode_ndef_record(data).kind
              = IF data = << >> THEN "empty" ELSE "raw"
    /\ ch = CHAR_CONTROL => decode_control_register(data).kind = "raw"

\* The step is the handling of a payload shorter than its channel's minimum.
ShortStep == last_op'.op = "event" /\ Short(last_op'.ch, last_op'.data)

\* C27 as stated: a payload shorter than its channel's minimum decodes to
\* the fallback and leaves the state of all three handlers unchanged.
C27_ShortLeavesState ==
    [][ShortStep =>
          /\ FallsBack(last_op'.ch, last_op'.data)
          /\ game' = game
          /\ dash' = dash
          /\ current_car' = current_car]_vars

\* C27: a payload shorter than its channel's minimum decodes to the
\* fallback, and it leaves the state of the three handlers unchanged
\* unless it is empty and stands for a removal: on the detection channel
\* the race game and the dashboard then clear their current car (and
\* nothing else of the race session or of the statistics), and on the
\* identity-record channel portal_app.py clears its tracked car.
C27_ShortPayloads ==
    [][ShortStep =>
          LET ch == last_op'.ch
              data == last_op'.data
          IN  /\ FallsBack(ch, data)
              /\ game' = IF ch = CHAR_EVENT_2 /\ data = << >>
                         THEN [game EXCEPT !.current_car_uid = None]
                         ELSE game
              /\ dash' = IF ch = CHAR_EVENT_2 /\ data = << >>
                         THEN [dash EXCEPT
                                 !.current_car = None,
                                 !.status_message = [kind |-> "no_car"]]
                         ELSE dash
              /\ current_car' = IF ch = CHAR_EVENT_1 /\ data = << >>
                                THEN InitCurrentCar
                                ELSE current_car]_vars

\* A 3-byte speed payload has just been handled during a race with a car
\* on the portal and a pass counted: nothing moved.
C27_Witness ==
    /\ last_op = Event(CHAR_EVENT_3, SpeedShort)
    /\ game.state = RACING
    /\ game.last_lap_time # None
    /\ game.current_car_uid = Some(FormatUid(UidA))
    /\ dash.total_passes = 1
    /\ dash.car_database[FormatUid(UidA)].laps = 1
    /\ current_car.nfc_uid = Some(FormatUid(UidA))


\* The serial of every car the dashboard has registered.
Serials(d) == [u \in DOMAIN d.car_database |-> d.car_database[u].serial]

\* C28: on the serial channel an empty payload changes no stored serial
\* and a non-empty payload replaces the stored serial by its decoded text
\* (in the dashboard, the serial of the car on the portal); no other
\* channel ever changes a stored serial.
C28_SerialChannel ==
    [][last_op'.op = "event" =>
          LET ch == last_op'.ch
              data == last_op'.data
          IN  /\ (ch = CHAR_SERIAL_NUMBER /\ data = << >>) =>
                    /\ game'.current_car_serial = game.current_car_serial
                    /\ Serials(dash') = Serials(dash)
                    /\ current_car'.serial = current_car.serial
              /\ (ch = CHAR_SERIAL_NUMBER /\ data # << >>) =>
                    /\ game'.current_car_serial = Some(DecodeUtf8(data))
                    /\ dash.current_car # None =>
                          Serials(dash')
                            = [Serials(dash) EXCEPT
                                 ![dash.current_car[1]] = DecodeUtf8(data)]
                    /\ current_car'.serial = Some(DecodeUtf8(data))
              /\ ch # CHAR_SERIAL_NUMBER =>
                    /\ game'.current_car_serial = game.current_car_serial
                    /\ \A u \in Cars :
                          dash'.car_database[u].serial
                            = dash.car_database[u].serial
                    /\ current_car'.serial = current_car.serial]_vars

\* An empty identity-record payload has just been handled: the race game
\* and the dashboard keep the serial they stored, portal_app.py has none.
C28_Witness ==
    /\ last_op = Event(CHAR_EVENT_1, << >>)
    /\ game.current_car_serial = Some(DecodeUtf8(SerialH))
    /\ Cars = {FormatUid(UidA)}
    /\ Serials(dash)[FormatUid(UidA)] = DecodeUtf8(SerialH)
    /\ current_car.serial = None
    /\ current_car.nfc_uid = None


(***************************************************************************)
(* SpecPortal: the library object on its own.  Callbacks are registered,   *)
(* some of which raise, and notifications are dispatched to them.          *)
(***************************************************************************)
MaxCallbacks == 3
MaxEvents == 2

Callbacks == {Returning("logger"), Raising("faulty"), Returning("display")}

PortalNotifications ==
    ({CHAR_EVENT_2} \X {UidA}) \cup ({CHAR_EVENT_3} \X {SpeedOne})

\* the portal after `async with`, before any on_event
PortalInit ==
    /\ game = InitGame
    /\ now = 0
    /\ mainpc = "loop"
    /\ cds = << >>
    /\ emitted = << >>
    /\ accepted = 0
    /\ started = 0
    /\ samples = 0
    /\ total_samples = 0
    /\ finishes = 0
    /\ finish_empty = FALSE
    /\ last_op = Op("init", << >>)
    /\ DashIdle
    /\ current_car = InitCurrentCar
    /\ printed = None
    /\ portal = [MonitoredPortal EXCEPT !._event_callbacks = << >>]
    /\ calls = << >>

OnEvent(callback) ==
    /\ Len(portal._event_callbacks) < MaxCallbacks
    /\ portal' = on_event(portal, callback)
    /\ last_op' = Op("on_event", << >>)
    /\ UNCHANGED << racevars, now, dashvars, appvars, calls >>

NotificationHandler(ch, data) ==
    /\ is_connected(portal)
    /\ Len(portal.events) < MaxEvents
    /\ portal' = _notification_handler(portal, ch, data, now)
    /\ calls' = Dispatch(portal._event_callbacks, PortalEvent(now, ch, data))
    /\ last_op' = Op("notification", data)
    /\ UNCHANGED << racevars, now, dashvars, appvars >>

\* the characteristics get_events is asked for
EventFilters ==
    {None, Some(CHAR_EVENT_2), Some(CHAR_EVENT_3), Some(CHAR_SERIAL_NUMBER)}

GetEvents(characteristic) ==
    /\ last_op' = Op("get_events",
                     [characteristic |-> characteristic,
                      returns |-> get_events(portal, characteristic)])
    /\ UNCHANGED << racevars, now, dashvars, appvars, libvars >>

ClearEvents ==
    /\ portal' = clear_events(portal)
    /\ last_op' = Op("clear_events", << >>)
    /\ UNCHANGED << racevars, now, dashvars, appvars, calls >>

NextPortal ==
    \/ \E callback \in Callbacks : OnEvent(callback)
    \/ \E n \in PortalNotifications : NotificationHandler(n[1], n[2])
    \/ ClockTo(CarTimes)
    \/ \E characteristic \in EventFilters : GetEvents(characteristic)
    \/ ClearEvents

SpecPortal == PortalInit /\ [][NextPortal]_vars

StopKeys == {"1", "q"}

\* Ctrl+C: asyncio cancels the main task, and the CancelledError leaves
\* run_countdown, process_key and the loop of run
Interrupt ==
    /\ mainpc \in {"loop", "await"}
    /\ mainpc' = "closing"
    /\ cds' = << >>
    /\ last_op' = Op("interrupt", << >>)
    /\ UNCHANGED << game, now, emitted, accepted, started, samples,
                    total_samples, finishes, finish_empty >>
    /\ UNCHANGED << dashvars, appvars, libvars >>

\* __aexit__: `await self.disconnect()` returns
Disconnect ==
    /\ mainpc = "closing"
    /\ mainpc' = "stopped"
    /\ portal' = disconnect(portal)
    /\ last_op' = Op("disconnect", << >>)
    /\ UNCHANGED << game, now, cds, emitted, accepted, started, samples,
                    total_samples, finishes, finish_empty >>
    /\ UNCHANGED << dashvars, appvars, calls >>

\* the radio link drops
LinkLost ==
    /\ is_connected(portal)
    /\ mainpc # "stopped"
    /\ portal' = [portal EXCEPT !.client = Some([is_connected |-> FALSE])]
    /\ last_op' = Op("link_lost", << >>)
    /\ UNCHANGED << racevars, now, dashvars, appvars, calls >>

NextStop ==
    \/ \E k \in StopKeys : KeyPress(k)
    \/ CountdownTick
    \/ CountdownDone
    \/ \E n \in RaceNotifications :
          Notify(n[1], n[2]) /\ total_samples' <= MaxPasses
    \/ Interrupt
    \/ Disconnect
    \/ LinkLost

SpecStop == Init /\ [][NextStop]_vars

\* The race session and the results of the game.
Session(g) ==
    [ state |-> g.state, target_laps |-> g.target_laps,
      current_lap |-> g.current_lap, lap_times |-> g.lap_times,
      last_lap_time |-> g.last_lap_time,
      race_start_time |-> g.race_start_time,
      countdown_value |-> g.countdown_value,
      current_player |-> g.current_player,
      player_count |-> g.player_count, results |-> g.results ]

\* The session was stopped, or the transport is disconnected.
Stopped == mainpc \in {"closing", "stopped"} \/ ~is_connected(portal)

\* C30: after a transport disconnect or an explicit stop of the race game
\* its state is never mutated again: no countdown value is assigned,
\* start_race is not called by a countdown that was pending, and no
\* notification changes the race session or the results.
C30_StopFreezes ==
    [][Stopped =>
          /\ Session(game') = Session(game)
          /\ emitted' = emitted
          /\ started' = started]_vars

\* The link is down and nothing was stopped: a countdown has run on and
\* has just called start_race.
C30_Witness ==
    /\ ~is_connected(portal)
    /\ portal._connected
    /\ mainpc = "loop"
    /\ last_op.op = "start_race"
    /\ game.state = RACING
    /\ started = 1
    /\ total_samples = 0


(***************************************************************************)
(* The race session, across races.                                         *)
(***************************************************************************)
\* C31: every lap duration of a race is the time between two speed
\* samples handled while Racing in that same race.  While Racing the time
\* of the last pass is set exactly when a sample of this race has been
\* handled, and is then no earlier than the start of the race; a lap is
\* the time since it; start_race clears it and no step other than a
\* Racing sample sets it, so a pass made in Menu, Countdown, Finished or
\* Leaderboard, or before the race started, enters no lap duration.
C31_LapWithinRace ==
    /\ [](game.state = RACING =>
            /\ (game.last_lap_time = None <=> samples = 0)
            /\ game.last_lap_time # None =>
                  /\ game.race_start_time # None
                  /\ game.last_lap_time[1] >= game.race_start_time[1])
    /\ [][Acted =>
            /\ last_op'.op = "speed_lap" =>
                  /\ game.state = RACING /\ samples >= 1
                  /\ game'.lap_times
                       = Append(game.lap_times,
                                now - game.last_lap_time[1])
            /\ last_op'.op = "start_race" =>
                  game'.last_lap_time = None /\ game'.lap_times = << >>
            /\ (~RacingSample(last_op'.op) /\ last_op'.op # "start_race") =>
                  /\ game'.last_lap_time = game.last_lap_time
                  /\ game'.lap_times = game.lap_times]_vars

\* A second race, started at time 1 after a first one that finished: its
\* first sample has just been handled and no lap is recorded for it.
C31_Witness ==
    /\ started = 2
    /\ game.state = RACING
    /\ Len(game.results) = 1
    /\ game.race_start_time = Some(1)
    /\ last_op.op = "speed_first"
    /\ samples = 1
    /\ game.lap_times = << >>
    /\ game.last_lap_time = Some(1)


\* C32: in every reachable state current_lap is the length of the lap
\* list, and while the state is Racing current_lap is less than
\* target_laps.
C32_LapCounter ==
    /\ game.current_lap = Len(game.lap_times)
    /\ game.state = RACING => game.current_lap < game.target_laps

\* A race of 5 laps with 4 laps recorded, one short of finishing.
C32_Witness ==
    /\ game.state = RACING
    /\ game.target_laps = 5
    /\ game.current_lap = 4
    /\ Len(game.lap_times) = 4
    /\ last_op.op = "speed_lap"


\* create_finished_display: the panel's title and the result it shows
create_finished_display(g) ==
    IF g.results = << >> THEN [title |-> "ERROR"]
    ELSE [title |-> "RESULTS", result |-> g.results[Len(g.results)]]

\* C33: whenever the state is Finished the results are non-empty and the
\* last one is the result of the race just finished: its lap times are
\* the session's lap list and its player is the current player; the
\* finished display therefore never shows its "No results" panel.
C33_FinishedHasResult ==
    game.state = FINISHED =>
       /\ game.results # << >>
       /\ LastResult.lap_times = game.lap_times
       /\ LastResult.player_name = game.current_player
       /\ create_finished_display(game).title = "RESULTS"
       /\ create_finished_display(game).result = LastResult

\* A race of 5 laps has just finished and its result is on display.
C33_Witness ==
    /\ game.state = FINISHED
    /\ last_op.op = "speed_lap"
    /\ Len(game.results) = 1
    /\ Len(game.lap_times) = 5
    /\ create_finished_display(game).result.lap_times = game.lap_times
    /\ create_finished_display(game).result.player_name = PlayerName(1)


(***************************************************************************)
(* SpecLive: one race in which passes keep coming.  The portal goes on     *)
(* notifying for as long as cars pass, so a full speed sample that can be  *)
(* handled is eventually handled.                                          *)
(***************************************************************************)
LiveKeys == {"1", "q", "x"}

\* struct.pack('<f', 0.0)
SpeedZero == << 0, 0, 0, 0 >>

LiveNotifications ==
    ({CHAR_EVENT_2} \X {UidA}) \cup ({CHAR_EVENT_3} \X {SpeedShort, SpeedZero})

\* a full speed sample is handled while the game is Racing
RacingPass == game.state = RACING /\ Notify(CHAR_EVENT_3, SpeedZero)

NextLive ==
    \/ Tick
    \/ \E k \in LiveKeys : KeyPress(k)
    \/ CountdownTick
    \/ CountdownDone
    \/ \E n \in LiveNotifications : Notify(n[1], n[2])

SpecLive == Init /\ [][NextLive]_vars /\ WF_vars(RacingPass)

\* C34: once the state is Racing, with speed samples that keep arriving
\* the state eventually becomes Finished; Racing is left only by the lap
\* that completes the target number, never by a key press (every key
\* pressed while Racing is ignored), and the number of recorded laps never
\* decreases during a race.
C34_RaceEnds ==
    /\ (game.state = RACING) ~> (game.state = FINISHED)
    /\ [][game.state = RACING =>
            /\ game'.state \in {RACING, FINISHED}
            /\ game'.state = FINISHED =>
                  /\ last_op'.op = "speed_lap"
                  /\ game'.current_lap = game.target_laps
                  /\ game'.current_lap = game.current_lap + 1
            /\ Len(game'.lap_times) >= Len(game.lap_times)
            /\ Acted => last_op'.op # "key"]_vars

\* The race of 5 laps was started once and its sixth sample finished it.
C34_Witness ==
    /\ game.state = FINISHED
    /\ started = 1
    /\ accepted = 1
    /\ game.target_laps = 5
    /\ samples = 6
    /\ game.current_lap = 5


(***************************************************************************)
(* SpecSeries: a session with every key, long enough for two races of      *)
(* five laps to be finished one after the other.  A car is detected or     *)
(* removed, or passes the gate.                                            *)
(***************************************************************************)
MaxSeries == 12

NextSeries ==
    \/ Tick
    \/ \E k \in Keys : KeyPress(k)
    \/ CountdownTick
    \/ CountdownDone
    \/ \E data \in {<< >>, UidA} : Notify(CHAR_EVENT_2, data)
    \/ Notify(CHAR_EVENT_3, SpeedOne) /\ total_samples' <= MaxSeries

SpecSeries == Init /\ [][NextSeries]_vars

\* C35: the list of results changes only when a race is finished, which
\* appends exactly one result at the end and leaves the earlier ones as
\* they were, and when c is pressed in the leaderboard, which empties it;
\* no other step changes it.
C35_ResultsFrame ==
    [][LET fin == Acted /\ game.state = RACING /\ game'.state = FINISHED
           clr == /\ Acted
                  /\ game.state = LEADERBOARD
                  /\ last_op' = Op("key", << "c" >>)
       IN  /\ fin => /\ last_op'.op = "speed_lap"
                     /\ Len(game'.results) = Len(game.results) + 1
                     /\ SubSeq(game'.results, 1, Len(game.results))
                           = game.results
                     /\ LastResult'.lap_times = game'.lap_times
           /\ clr => game'.results = << >>
           /\ (~fin /\ ~clr) => game'.results = game.results]_vars

\* The second race of the session has just been finished: the result of
\* the first player is followed by the result of the second.
C35_Witness ==
    /\ game.state = FINISHED
    /\ last_op.op = "speed_lap"
    /\ Len(game.results) = 2
    /\ game.results[1].player_name = PlayerName(1)
    /\ game.results[2].player_name = PlayerName(2)


\* C36: the car_uid of a stored result is the identifier of the car on the
\* portal at the pass that finished the race, or "Unknown" when there was
\* none; a detection or removal heard while Racing changes neither the
\* list of lap times nor the lap counter.
C36_CarOfResult ==
    [][Acted =>
         /\ (game.state = RACING /\ game'.state = FINISHED) =>
               /\ last_op'.op = "speed_lap"
               /\ game'.current_car_uid = game.current_car_uid
               /\ game.current_car_uid = None =>
                     LastResult'.car_uid = UnknownText
               /\ game.current_car_uid # None =>
                     /\ LastResult'.car_uid = game.current_car_uid[1]
                     /\ LastResult'.car_uid = FormatUid(UidA)
         /\ (game.state = RACING /\ last_op'.op = "detect") =>
               /\ game'.lap_times = game.lap_times
               /\ game'.current_lap = game.current_lap
               /\ game'.last_lap_time = game.last_lap_time
               /\ game'.state = RACING]_vars

\* A race of five laps was finished with a car on the portal, and its
\* result names that car.
C36_Witness ==
    /\ game.state = FINISHED
    /\ last_op.op = "speed_lap"
    /\ Len(game.results) = 1
    /\ game.current_car_uid = Some(FormatUid(UidA))
    /\ LastResult.car_uid = FormatUid(UidA)
    /\ LastResult.lap_count = 5


\* C37: last_pass_time is one value for the whole dashboard, the clock
\* reading of the latest pass whichever car made it, and no detection or
\* removal changes it; a pass with a car on the portal credits that car
\* with the time since the latest earlier pass of any car or of none, so
\* a car's first pass is credited a lap time when any pass came before it.
C37_SharedLastPass ==
    /\ [](dash.last_pass_time =
             IF pass_log = << >> THEN None
             ELSE Some(pass_log[Len(pass_log)].time))
    /\ [][(Acted /\ last_op'.op # "pass") =>
             dash'.last_pass_time = dash.last_pass_time]_vars
    /\ [][(/\ Acted
           /\ last_op'.op = "pass"
           /\ dash.current_car # None
           /\ pass_log # << >>) =>
             LET u == dash.current_car[1]
                 duration == now - pass_log[Len(pass_log)].time
             IN  dash'.car_database[u].lap_times
                    = Append(dash.car_database[u].lap_times, duration)]_vars

\* A second car makes its first pass at the clock reading of the pass the
\* first car made before it: the pass is recorded with a lap time of 0 and
\* the second car is credited with no lap time.
C37_Witness ==
    /\ last_op.op = "pass"
    /\ Len(pass_log) = 2
    /\ pass_log[1].car # None
    /\ pass_log[2].car # None
    /\ pass_log[1].car # pass_log[2].car
    /\ TimesOf(pass_log) = << 5, 5 >>
    /\ dash.recent_passes[2].lap_time = Some(0)
    /\ LET c == dash.car_database[pass_log[2].car[1]]
       IN  c.laps = 1 /\ c.lap_times = << >>


RECURSIVE Matching(_, _)
\* the events of `es` on characteristic c, one by one in the order of `es`
Matching(es, c) ==
    IF es = << >> THEN << >>
    ELSE (IF es[1].characteristic = c THEN << es[1] >> ELSE << >>)
           \o Matching(Tail(es), c)

\* C38: a notification is appended to the log once, at its end, and every
\* callback called for it is handed the event by then in the log, so the
\* log is in arrival order; get_events() returns the log in that order and
\* get_events(c) the events on c in the order they have in the log, both
\* leaving the log alone; only clear_events removes events.
C38_EventLog ==
    /\ [](\A i \in 1..Len(portal.events) : \A j \in i..Len(portal.events) :
             portal.events[i].timestamp <= portal.events[j].timestamp)
    /\ [][Acted =>
            /\ last_op'.op = "notification" =>
                  LET event == portal'.events[Len(portal'.events)]
                  IN  /\ portal'.events = Append(portal.events, event)
                      /\ event.timestamp = now
                      /\ event.data = last_op'.data
                      /\ \A i \in 1..Len(calls') : calls'[i].event = event
            /\ last_op'.op = "get_events" =>
                  LET c == last_op'.data.characteristic
                      r == last_op'.data.returns
                  IN  /\ portal' = portal
                      /\ c = None => r = portal.events
                      /\ c # None => r = Matching(portal.events, c[1])
            /\ last_op'.op = "clear_events" => portal'.events = << >>
            /\ last_op'.op \notin {"notification", "clear_events"} =>
                  portal'.events = portal.events]_vars

\* Of a detection logged at 0 and a speed sample logged at 5,
\* get_events(CHAR_EVENT_3) returned the speed sample alone.
C38_Witness ==
    /\ last_op.op = "get_events"
    /\ last_op.data.characteristic = Some(CHAR_EVENT_3)
    /\ Len(portal.events) = 2
    /\ portal.events[1] = PortalEvent(0, CHAR_EVENT_2, UidA)
    /\ portal.events[2] = PortalEvent(5, CHAR_EVENT_3, SpeedOne)
    /\ last_op.data.returns = << PortalEvent(5, CHAR_EVENT_3, SpeedOne) >>


(***************************************************************************)
(* SpecLink: the methods of a HotWheelsPortal called in any order, from    *)
(* the portal as constructed, over a radio that links, refuses or drops.   *)
(***************************************************************************)
Links == {"none_found", "linked", "refused", "error"}

\* what a call did, without the portal
Report(r) ==
    [returns |-> r.returns, raises |-> r.raises, transport |-> r.transport]

LinkInit ==
    /\ game = InitGame
    /\ now = 0
    /\ mainpc = "loop"
    /\ cds = << >>
    /\ emitted = << >>
    /\ accepted = 0
    /\ started = 0
    /\ samples = 0
    /\ total_samples = 0
    /\ finishes = 0
    /\ finish_empty = FALSE
    /\ last_op = Op("init", << >>)
    /\ DashIdle
    /\ current_car = InitCurrentCar
    /\ printed = None
    /\ portal = InitPortal
    /\ calls = << >>

\* a method of the portal is called and returns or raises
Called(name, r) ==
    /\ portal' = r.portal
    /\ last_op' = Op(name, Report(r))
    /\ UNCHANGED << racevars, now, dashvars, appvars, calls >>

Connect(link) == Called("connect", connect(portal, link))

CloseLink ==
    Called("disconnect",
           Outcome(disconnect(portal), None, None,
                   IF portal.client # None /\ portal._connected
                   THEN << Transport("disconnect", None) >> ELSE << >>))

StartMonitoring == Called("start_monitoring", start_monitoring(portal))

StopMonitoring == Called("stop_monitoring", stop_monitoring(portal))

ReadControlRegister(value) ==
    Called("read_control_register", read_control_register(portal, value))

WriteControlRegister(data) ==
    Called("write_control_register", write_control_register(portal, data))

SendCommand(data) == Called("send_command", send_command(portal, data))

NextLink ==
    \/ \E link \in Links : Connect(link)
    \/ CloseLink
    \/ LinkLost
    \/ StartMonitoring
    \/ StopMonitoring
    \/ \E value \in {ControlShort, ControlFull} : ReadControlRegister(value)
    \/ \E data \in {ControlShort, ControlFull} : WriteControlRegister(data)
    \/ \E data \in {ControlShort, ControlFull} : SendCommand(data)
    \/ \E callback \in Callbacks : OnEvent(callback)

SpecLink == LinkInit /\ [][NextLink]_vars

\* the methods that need the connection
Guarded ==
    {"start_monitoring", "read_control_register", "write_control_register",
     "send_command"}

\* C39: while the portal is not connected (before connect, after
\* disconnect, or with the link gone), start_monitoring,
\* read_control_register, write_control_register and send_command raise
\* ConnectionError and stop_monitoring returns, each with no operation on
\* the transport and the portal left as it was; connect on a portal that
\* is connected returns true and opens nothing; disconnect on a portal
\* that is not connected (none opened, or closed already) does nothing.
C39_ConnectionGuard ==
    [][Acted =>
         LET did == last_op'.data
         IN  /\ (last_op'.op \in Guarded /\ ~is_connected(portal)) =>
                   /\ did.raises = Some("ConnectionError")
                   /\ did.returns = None
                   /\ did.transport = << >>
                   /\ portal' = portal
             /\ (last_op'.op \in Guarded /\ is_connected(portal)) =>
                   /\ did.raises = None
                   /\ did.transport # << >>
             /\ (last_op'.op = "stop_monitoring" /\ ~is_connected(portal)) =>
                   /\ did.raises = None
                   /\ did.transport = << >>
                   /\ portal' = portal
             /\ (last_op'.op = "connect" /\ portal._connected) =>
                   /\ did.returns = Some(TRUE)
                   /\ did.raises = None
                   /\ did.transport = << >>
                   /\ portal' = portal
             /\ (last_op'.op = "disconnect" /\ ~portal._connected) =>
                   /\ did.raises = None
                   /\ did.transport = << >>
                   /\ portal' = portal]_vars

\* start_monitoring was called on a portal that holds a client without a
\* link and is marked not connected: it raised ConnectionError and
\* touched nothing.
C39_Witness ==
    /\ last_op.op = "start_monitoring"
    /\ last_op.data.raises = Some("ConnectionError")
    /\ last_op.data.transport = << >>
    /\ portal.client = Some([is_connected |-> FALSE])
    /\ ~portal._connected

=============================================================================
